---- MODULE Spec2Model ----
(***************************************************************************)
(* A state-machine model of the BLE bridge of libdc-swift                  *)
(* (Sources/LibDCBridge/src/configuredc.c): the BLE iostream adapter, the  *)
(* device identification by advertised name, and the device session        *)
(* (open_ble_device, open_ble_device_with_identification, the event        *)
(* callback and close_device_data).                                        *)
(*                                                                         *)
(* Every C function is an operator from a world (the session struct, the   *)
(* heap of live objects, the device handle, the log of calls made) to a    *)
(* world; every entry point is one action that applies the operator to the *)
(* current state.  What libdivecomputer, malloc and the platform BLE layer *)
(* answer is an input of the action (env).                                 *)
(***************************************************************************)
EXTENDS Integers, Sequences, FiniteSets, TLC

VARIABLES
    data,      \* the device_data_t the operations work on
    cur,       \* 0: data is storage of the caller; n > 0: the struct calloc'ed as object n
    out_data,  \* *out_data of open_ble_device_with_identification (0: never written)
    heap,      \* per kind of object, the ids of the live ones
    devobj,    \* the dc_device_t data.device points to
    iostreamobj, \* the ble_stream_t data.iostream points to
    catalog,   \* what dc_descriptor_iterator enumerates
    trace,     \* the calls made by the last operation, in order
    last,      \* the last operation: its arguments, its inputs and what it returned
    faults,    \* undefined behaviour met so far (a free of an object that is not live)
    nOpens,    \* opens performed (bounded by MaxOpens)
    nEvents    \* events delivered (bounded by MaxEvents)

vars == <<data, cur, out_data, heap, devobj, iostreamobj, catalog, trace, last, faults, nOpens, nEvents>>

-----------------------------------------------------------------------------
(* Bounds of the model. *)

MaxOpens == 2
MaxEvents == 2
MaxIdents == 1
MaxResolves == 3

-----------------------------------------------------------------------------
(* dc_status_t, dc_family_t, dc_transport_t, dc_event_type_t of libdivecomputer. *)

DC_STATUS_SUCCESS == "DC_STATUS_SUCCESS"
DC_STATUS_UNSUPPORTED == "DC_STATUS_UNSUPPORTED"
DC_STATUS_INVALIDARGS == "DC_STATUS_INVALIDARGS"
DC_STATUS_NOMEMORY == "DC_STATUS_NOMEMORY"
DC_STATUS_NODEVICE == "DC_STATUS_NODEVICE"
DC_STATUS_IO == "DC_STATUS_IO"
DC_STATUS_TIMEOUT == "DC_STATUS_TIMEOUT"
DC_STATUS_PROTOCOL == "DC_STATUS_PROTOCOL"

DC_FAMILY_NULL == "DC_FAMILY_NULL"
DC_TRANSPORT_BLE == "DC_TRANSPORT_BLE"

DC_EVENT_DEVINFO == "DC_EVENT_DEVINFO"
DC_EVENT_PROGRESS == "DC_EVENT_PROGRESS"
DC_EVENT_CLOCK == "DC_EVENT_CLOCK"
DC_EVENT_WAITING == "DC_EVENT_WAITING"
DC_EVENT_VENDOR == "DC_EVENT_VENDOR"

NULL == 0

-----------------------------------------------------------------------------
(* The heap: objects are told apart by kind and id; malloc hands out the    *)
(* lowest id of the kind that is not live.                                  *)

\* "link" is a connection connectToBLEDevice has established, under the id of
\* its BLE object.
Kinds == {"data", "context", "descriptor", "iterator", "ble", "link", "iostream",
          "device", "fingerprint", "model"}

EmptyHeap == [k \in Kinds |-> {}]

\* e is computed once and handed on to K: one statement after another.
Do(e, K(_)) == CHOOSE r \in {K(x) : x \in {e}} : TRUE

FreshId(h, k) == CHOOSE n \in 1..(Cardinality(h[k]) + 1) : n \notin h[k]

Event(call, obj, ok) == [call |-> call, obj |-> obj, ok |-> ok]

\* An object of kind k comes to life; the call that made it is logged.
Acquire(w, k, call) ==
    Do(w, LAMBDA v :
    Do(FreshId(v.heap, k), LAMBDA id :
       [v EXCEPT !.heap[k] = @ \cup {id},
                 !.trace = Append(@, Event(call, id, TRUE)),
                 !.ret = id]))

\* Object id of kind k is released by call; releasing what is not live is a fault.
Release(w, k, id, call) ==
    Do(w, LAMBDA v :
       [v EXCEPT !.heap[k] = @ \ {id},
                 !.trace = Append(@, Event(call, id, TRUE)),
                 !.faults = IF id \in v.heap[k] THEN @ ELSE @ \cup {<<call, k>>}])

\* A call that makes or frees nothing (or fails to).
Log(w, call, obj, ok) == [w EXCEPT !.trace = Append(@, Event(call, obj, ok))]

-----------------------------------------------------------------------------
(* Strings of C: strstr and strncmp as find_descriptor_by_name uses them.   *)

\* strstr(name, key) != NULL
StrStr(name, key) ==
    \E i \in 1..(Len(name) - Len(key) + 1) : SubSeq(name, i, i + Len(key) - 1) = key

\* strncmp(name, key, strlen(key)) == 0
StrNCmpEq(name, key) ==
    /\ Len(name) >= Len(key)
    /\ SubSeq(name, 1, Len(key)) = key

-----------------------------------------------------------------------------
(* The pattern table of find_descriptor_by_name, in its declared order.     *)

MATCH_EXACT == "MATCH_EXACT"
MATCH_PREFIX == "MATCH_PREFIX"
MATCH_CONTAINS == "MATCH_CONTAINS"

name_patterns == <<
    [prefix |-> "Predator", vendor |-> "Shearwater", product |-> "Predator", match_type |-> MATCH_EXACT],
    [prefix |-> "Perdix 2", vendor |-> "Shearwater", product |-> "Perdix 2", match_type |-> MATCH_EXACT],
    [prefix |-> "Petrel 3", vendor |-> "Shearwater", product |-> "Petrel 3", match_type |-> MATCH_EXACT],
    [prefix |-> "Petrel", vendor |-> "Shearwater", product |-> "Petrel 2", match_type |-> MATCH_EXACT],
    [prefix |-> "Perdix", vendor |-> "Shearwater", product |-> "Perdix", match_type |-> MATCH_EXACT],
    [prefix |-> "Teric", vendor |-> "Shearwater", product |-> "Teric", match_type |-> MATCH_EXACT],
    [prefix |-> "Peregrine TX", vendor |-> "Shearwater", product |-> "Peregrine TX", match_type |-> MATCH_EXACT],
    [prefix |-> "Peregrine", vendor |-> "Shearwater", product |-> "Peregrine TX", match_type |-> MATCH_EXACT],
    [prefix |-> "NERD 2", vendor |-> "Shearwater", product |-> "NERD 2", match_type |-> MATCH_EXACT],
    [prefix |-> "NERD", vendor |-> "Shearwater", product |-> "NERD", match_type |-> MATCH_EXACT],
    [prefix |-> "Tern", vendor |-> "Shearwater", product |-> "Tern", match_type |-> MATCH_EXACT],
    [prefix |-> "EON Steel", vendor |-> "Suunto", product |-> "EON Steel", match_type |-> MATCH_EXACT],
    [prefix |-> "Suunto D5", vendor |-> "Suunto", product |-> "D5", match_type |-> MATCH_EXACT],
    [prefix |-> "EON Core", vendor |-> "Suunto", product |-> "EON Core", match_type |-> MATCH_EXACT],
    [prefix |-> "G2", vendor |-> "Scubapro", product |-> "G2", match_type |-> MATCH_EXACT],
    [prefix |-> "HUD", vendor |-> "Scubapro", product |-> "G2 HUD", match_type |-> MATCH_EXACT],
    [prefix |-> "G3", vendor |-> "Scubapro", product |-> "G3", match_type |-> MATCH_EXACT],
    [prefix |-> "Aladin", vendor |-> "Scubapro", product |-> "Aladin Sport Matrix", match_type |-> MATCH_EXACT],
    [prefix |-> "A1", vendor |-> "Scubapro", product |-> "Aladin A1", match_type |-> MATCH_EXACT],
    [prefix |-> "A2", vendor |-> "Scubapro", product |-> "Aladin A2", match_type |-> MATCH_EXACT],
    [prefix |-> "Luna 2.0 AI", vendor |-> "Scubapro", product |-> "Luna 2.0 AI", match_type |-> MATCH_EXACT],
    [prefix |-> "Luna 2.0", vendor |-> "Scubapro", product |-> "Luna 2.0", match_type |-> MATCH_EXACT],
    [prefix |-> "Mares Genius", vendor |-> "Mares", product |-> "Genius", match_type |-> MATCH_EXACT],
    [prefix |-> "Sirius", vendor |-> "Mares", product |-> "Sirius", match_type |-> MATCH_EXACT],
    [prefix |-> "Quad Ci", vendor |-> "Mares", product |-> "Quad Ci", match_type |-> MATCH_EXACT],
    [prefix |-> "Puck4", vendor |-> "Mares", product |-> "Puck 4", match_type |-> MATCH_EXACT],
    [prefix |-> "CARESIO_", vendor |-> "Cressi", product |-> "Cartesio", match_type |-> MATCH_PREFIX],
    [prefix |-> "GOA_", vendor |-> "Cressi", product |-> "Goa", match_type |-> MATCH_PREFIX],
    [prefix |-> "Leonardo", vendor |-> "Cressi", product |-> "Leonardo 2.0", match_type |-> MATCH_CONTAINS],
    [prefix |-> "Donatello", vendor |-> "Cressi", product |-> "Donatello", match_type |-> MATCH_CONTAINS],
    [prefix |-> "Michelangelo", vendor |-> "Cressi", product |-> "Michelangelo", match_type |-> MATCH_CONTAINS],
    [prefix |-> "Neon", vendor |-> "Cressi", product |-> "Neon", match_type |-> MATCH_CONTAINS],
    [prefix |-> "Nepto", vendor |-> "Cressi", product |-> "Nepto", match_type |-> MATCH_CONTAINS],
    [prefix |-> "OSTC 3", vendor |-> "Heinrichs Weikamp", product |-> "OSTC Plus", match_type |-> MATCH_EXACT],
    [prefix |-> "OSTC s#", vendor |-> "Heinrichs Weikamp", product |-> "OSTC Sport", match_type |-> MATCH_EXACT],
    [prefix |-> "OSTC s ", vendor |-> "Heinrichs Weikamp", product |-> "OSTC Sport", match_type |-> MATCH_EXACT],
    [prefix |-> "OSTC 4-", vendor |-> "Heinrichs Weikamp", product |-> "OSTC 4", match_type |-> MATCH_EXACT],
    [prefix |-> "OSTC 2-", vendor |-> "Heinrichs Weikamp", product |-> "OSTC 2N", match_type |-> MATCH_EXACT],
    [prefix |-> "OSTC + ", vendor |-> "Heinrichs Weikamp", product |-> "OSTC 2", match_type |-> MATCH_EXACT],
    [prefix |-> "OSTC", vendor |-> "Heinrichs Weikamp", product |-> "OSTC 2", match_type |-> MATCH_EXACT],
    [prefix |-> "COSMIQ", vendor |-> "Deepblu", product |-> "Cosmiq+", match_type |-> MATCH_EXACT],
    [prefix |-> "S1", vendor |-> "Oceans", product |-> "S1", match_type |-> MATCH_EXACT],
    [prefix |-> "McLean Extreme", vendor |-> "McLean", product |-> "Extreme", match_type |-> MATCH_EXACT],
    [prefix |-> "DiveComputer", vendor |-> "Tecdiving", product |-> "DiveComputer.eu", match_type |-> MATCH_EXACT],
    [prefix |-> "DS", vendor |-> "Ratio", product |-> "iX3M 2021 GPS Easy", match_type |-> MATCH_EXACT],
    [prefix |-> "IX5M", vendor |-> "Ratio", product |-> "iX3M 2021 GPS Easy", match_type |-> MATCH_EXACT],
    [prefix |-> "RATIO-", vendor |-> "Ratio", product |-> "iX3M 2021 GPS Easy", match_type |-> MATCH_EXACT]
>>

-----------------------------------------------------------------------------
(* The descriptor catalog of libdivecomputer, which the bridge only reads   *)
(* through dc_descriptor_iterator.  filter is the set of advertised names   *)
(* the descriptor's filter function accepts over BLE.                       *)

Desc(vendor, product, type, model, transports, filter) ==
    [vendor |-> vendor, product |-> product, type |-> type, model |-> model,
     transports |-> transports, filter |-> filter]

\* A catalog that holds every product the pattern table names, and
\* "Shearwater Peregrine", which the table never names.
TableCatalog == <<
    Desc("Shearwater", "Predator", "DC_FAMILY_SHEARWATER_PREDATOR", 2, {DC_TRANSPORT_BLE}, {"Predator"}),
    Desc("Shearwater", "Perdix 2", "DC_FAMILY_SHEARWATER_PETREL", 3, {DC_TRANSPORT_BLE}, {"Perdix 2"}),
    Desc("Shearwater", "Petrel 3", "DC_FAMILY_SHEARWATER_PETREL", 4, {DC_TRANSPORT_BLE}, {"Petrel 3"}),
    Desc("Shearwater", "Petrel 2", "DC_FAMILY_SHEARWATER_PETREL", 5, {DC_TRANSPORT_BLE}, {"Petrel 2"}),
    Desc("Shearwater", "Perdix", "DC_FAMILY_SHEARWATER_PETREL", 6, {DC_TRANSPORT_BLE}, {"Perdix"}),
    Desc("Shearwater", "Teric", "DC_FAMILY_SHEARWATER_PETREL", 7, {DC_TRANSPORT_BLE}, {"Teric"}),
    Desc("Shearwater", "Peregrine", "DC_FAMILY_SHEARWATER_PETREL", 8, {DC_TRANSPORT_BLE}, {"Peregrine"}),
    Desc("Shearwater", "Peregrine TX", "DC_FAMILY_SHEARWATER_PETREL", 9, {DC_TRANSPORT_BLE}, {"Peregrine TX"}),
    Desc("Shearwater", "NERD 2", "DC_FAMILY_SHEARWATER_PETREL", 10, {DC_TRANSPORT_BLE}, {"NERD 2"}),
    Desc("Shearwater", "NERD", "DC_FAMILY_SHEARWATER_PETREL", 11, {DC_TRANSPORT_BLE}, {"NERD"}),
    Desc("Shearwater", "Tern", "DC_FAMILY_SHEARWATER_PETREL", 12, {DC_TRANSPORT_BLE}, {"Tern"}),
    Desc("Suunto", "EON Steel", "DC_FAMILY_SUUNTO_EONSTEEL", 0, {DC_TRANSPORT_BLE}, {"EON Steel"}),
    Desc("Suunto", "D5", "DC_FAMILY_SUUNTO_EONSTEEL", 1, {DC_TRANSPORT_BLE}, {"D5"}),
    Desc("Suunto", "EON Core", "DC_FAMILY_SUUNTO_EONSTEEL", 2, {DC_TRANSPORT_BLE}, {"EON Core"}),
    Desc("Scubapro", "G2", "DC_FAMILY_UWATEC_SMART", 17, {DC_TRANSPORT_BLE}, {"G2"}),
    Desc("Scubapro", "G2 HUD", "DC_FAMILY_UWATEC_SMART", 18, {DC_TRANSPORT_BLE}, {"G2 HUD"}),
    Desc("Scubapro", "G3", "DC_FAMILY_UWATEC_SMART", 19, {DC_TRANSPORT_BLE}, {"G3"}),
    Desc("Scubapro", "Aladin Sport Matrix", "DC_FAMILY_UWATEC_SMART", 20, {DC_TRANSPORT_BLE}, {"Aladin Sport Matrix"}),
    Desc("Scubapro", "Aladin A1", "DC_FAMILY_UWATEC_SMART", 21, {DC_TRANSPORT_BLE}, {"Aladin A1"}),
    Desc("Scubapro", "Aladin A2", "DC_FAMILY_UWATEC_SMART", 22, {DC_TRANSPORT_BLE}, {"Aladin A2"}),
    Desc("Scubapro", "Luna 2.0 AI", "DC_FAMILY_UWATEC_SMART", 23, {DC_TRANSPORT_BLE}, {"Luna 2.0 AI"}),
    Desc("Scubapro", "Luna 2.0", "DC_FAMILY_UWATEC_SMART", 24, {DC_TRANSPORT_BLE}, {"Luna 2.0"}),
    Desc("Mares", "Genius", "DC_FAMILY_MARES_ICONHD", 28, {DC_TRANSPORT_BLE}, {"Genius"}),
    Desc("Mares", "Sirius", "DC_FAMILY_MARES_ICONHD", 29, {DC_TRANSPORT_BLE}, {"Sirius"}),
    Desc("Mares", "Quad Ci", "DC_FAMILY_MARES_ICONHD", 30, {DC_TRANSPORT_BLE}, {"Quad Ci"}),
    Desc("Mares", "Puck 4", "DC_FAMILY_MARES_ICONHD", 31, {DC_TRANSPORT_BLE}, {"Puck 4"}),
    Desc("Cressi", "Cartesio", "DC_FAMILY_CRESSI_GOA", 1, {DC_TRANSPORT_BLE}, {"Cartesio"}),
    Desc("Cressi", "Goa", "DC_FAMILY_CRESSI_GOA", 2, {DC_TRANSPORT_BLE}, {"Goa"}),
    Desc("Cressi", "Leonardo 2.0", "DC_FAMILY_CRESSI_GOA", 3, {DC_TRANSPORT_BLE}, {"Leonardo 2.0"}),
    Desc("Cressi", "Donatello", "DC_FAMILY_CRESSI_GOA", 4, {DC_TRANSPORT_BLE}, {"Donatello"}),
    Desc("Cressi", "Michelangelo", "DC_FAMILY_CRESSI_GOA", 5, {DC_TRANSPORT_BLE}, {"Michelangelo"}),
    Desc("Cressi", "Neon", "DC_FAMILY_CRESSI_GOA", 6, {DC_TRANSPORT_BLE}, {"Neon"}),
    Desc("Cressi", "Nepto", "DC_FAMILY_CRESSI_GOA", 7, {DC_TRANSPORT_BLE}, {"Nepto"}),
    Desc("Heinrichs Weikamp", "OSTC Plus", "DC_FAMILY_HW_OSTC3", 10, {DC_TRANSPORT_BLE}, {"OSTC Plus"}),
    Desc("Heinrichs Weikamp", "OSTC Sport", "DC_FAMILY_HW_OSTC3", 11, {DC_TRANSPORT_BLE}, {"OSTC Sport"}),
    Desc("Heinrichs Weikamp", "OSTC 4", "DC_FAMILY_HW_OSTC3", 12, {DC_TRANSPORT_BLE}, {"OSTC 4"}),
    Desc("Heinrichs Weikamp", "OSTC 2N", "DC_FAMILY_HW_OSTC3", 13, {DC_TRANSPORT_BLE}, {"OSTC 2N"}),
    Desc("Heinrichs Weikamp", "OSTC 2", "DC_FAMILY_HW_OSTC3", 14, {DC_TRANSPORT_BLE}, {"OSTC 2"}),
    Desc("Deepblu", "Cosmiq+", "DC_FAMILY_DEEPBLU_COSMIQ", 0, {DC_TRANSPORT_BLE}, {"Cosmiq+"}),
    Desc("Oceans", "S1", "DC_FAMILY_OCEANS_S1", 0, {DC_TRANSPORT_BLE}, {"S1"}),
    Desc("McLean", "Extreme", "DC_FAMILY_MCLEAN_EXTREME", 0, {DC_TRANSPORT_BLE}, {"Extreme"}),
    Desc("Tecdiving", "DiveComputer.eu", "DC_FAMILY_TECDIVING_DIVECOMPUTEREU", 0, {DC_TRANSPORT_BLE}, {"DiveComputer.eu"}),
    Desc("Ratio", "iX3M 2021 GPS Easy", "DC_FAMILY_DIVESYSTEM_IDIVE", 96, {DC_TRANSPORT_BLE}, {"iX3M 2021 GPS Easy"})
>>

\* Descriptors only the filter fallback can reach: one that is not
\* BLE-capable and whose filter accepts the name, then two BLE-capable ones.
FilterCatalog == <<
    Desc("Uwatec", "Smart Pro", "DC_FAMILY_UWATEC_SMART", 16, {"DC_TRANSPORT_IRDA"},
         {"FQ001234", "Unknown"}),
    Desc("Aqualung", "i770R", "DC_FAMILY_PELAGIC_I330R", 17746, {DC_TRANSPORT_BLE},
         {"FQ001234"}),
    Desc("Oceanic", "Pro Plus X", "DC_FAMILY_PELAGIC_I330R", 17744,
         {"DC_TRANSPORT_USBHID", DC_TRANSPORT_BLE}, {"FQ001234", "FH004321"})
>>

FullCatalog == TableCatalog \o FilterCatalog

\* s without its i-th element
Without(s, i) == SubSeq(s, 1, i - 1) \o SubSeq(s, i + 1, Len(s))

\* The catalogs name resolution is checked against: the full one, the full
\* one with any single descriptor missing, and the empty one.
NameCatalogs ==
    {FullCatalog, << >>} \cup {Without(FullCatalog, i) : i \in 1..Len(FullCatalog)}

\* The catalog of the session operations: a table product with a non-zero
\* model, a table product whose model number is 0, a product only its filter
\* finds, and one that is not BLE-capable.
SessionCatalog == <<
    Desc("Shearwater", "Petrel 2", "DC_FAMILY_SHEARWATER_PETREL", 3, {DC_TRANSPORT_BLE},
         {"Petrel"}),
    Desc("Suunto", "EON Steel", "DC_FAMILY_SUUNTO_EONSTEEL", 0, {DC_TRANSPORT_BLE},
         {"EON Steel"}),
    Desc("Uwatec", "Smart Pro", "DC_FAMILY_UWATEC_SMART", 16, {"DC_TRANSPORT_IRDA"},
         {"FQ001234"}),
    Desc("Aqualung", "i770R", "DC_FAMILY_PELAGIC_I330R", 17746, {DC_TRANSPORT_BLE},
         {"FQ001234"})
>>

-----------------------------------------------------------------------------
(* Device identification.                                                   *)

\* Result of a descriptor search: the world after it, the status, the
\* descriptor handed out (NULL: none), its place in the catalog, the table
\* entry that produced it (0: none) and the iterators asked for so far.
Found(w, rc, desc, idx) ==
    [w |-> w, rc |-> rc, desc |-> desc, idx |-> idx, pattern |-> 0, n |-> 0]

\* A loop that has not returned: it goes on with the next iteration.
CONTINUE == "continue"

GoOn(w, n) == [w |-> w, rc |-> CONTINUE, desc |-> NULL, idx |-> 0, pattern |-> 0, n |-> n]

\* dc_descriptor_iterator: the n-th creation of the call fails when the
\* environment says so.
IteratorFails(env, n) == env.iterFail = n

\* The iterator is exhausted: the loop ends, the iterator is freed.
Exhausted(w, it) ==
    Release(Log(w, "dc_iterator_next", NULL, FALSE), "iterator", it, "dc_iterator_free")

\* Iterations lo..hi of the while loop of find_descriptor_by_model over the
\* catalog.  A range is done half by half, so that the evaluation does not
\* nest as deep as the catalog is long.
RECURSIVE ScanByModel(_, _, _, _, _, _)
ScanByModel(w, it, lo, hi, family, model) ==
    IF lo > hi
    THEN GoOn(w, 0)
    ELSE IF lo = hi
         THEN Do(Acquire(w, "descriptor", "dc_iterator_next"), LAMBDA w1 :
                 IF catalog[lo].type = family /\ catalog[lo].model = model
                 THEN Found(Release(w1, "iterator", it, "dc_iterator_free"),
                            DC_STATUS_SUCCESS, w1.ret, lo)
                 ELSE GoOn(Release(w1, "descriptor", w1.ret, "dc_descriptor_free"), 0))
         ELSE Do(ScanByModel(w, it, lo, (lo + hi) \div 2, family, model), LAMBDA r :
                 IF r.rc # CONTINUE
                 THEN r
                 ELSE ScanByModel(r.w, it, (lo + hi) \div 2 + 1, hi, family, model))

find_descriptor_by_model(w, family, model, env) ==
    IF IteratorFails(env, 1)
    THEN Found(Log(w, "dc_descriptor_iterator", NULL, FALSE), env.iterRc, NULL, 0)
    ELSE Do(Acquire(w, "iterator", "dc_descriptor_iterator"), LAMBDA w1 :
         Do(ScanByModel(w1, w1.ret, 1, Len(catalog), family, model), LAMBDA r :
            IF r.rc # CONTINUE
            THEN r
            ELSE Found(Exhausted(r.w, w1.ret), DC_STATUS_UNSUPPORTED, NULL, 0)))

\* The switch on match_type.
PatternMatches(p, name) ==
    CASE p.match_type = MATCH_EXACT -> StrStr(name, p.prefix)
      [] p.match_type = MATCH_PREFIX -> StrNCmpEq(name, p.prefix)
      [] p.match_type = MATCH_CONTAINS -> StrStr(name, p.prefix)
      [] OTHER -> FALSE

\* The inner while loop comparing the product over the length of the
\* catalog's product only.
RECURSIVE ScanByProduct_prefix(_, _, _, _, _)
ScanByProduct_prefix(w, it, lo, hi, p) ==
    IF lo > hi
    THEN GoOn(w, 0)
    ELSE IF lo = hi
         THEN Do(Acquire(w, "descriptor", "dc_iterator_next"), LAMBDA w1 :
                 IF catalog[lo].vendor = p.vendor
                    /\ StrNCmpEq(p.product, catalog[lo].product)
                 THEN Found(Release(w1, "iterator", it, "dc_iterator_free"),
                            DC_STATUS_SUCCESS, w1.ret, lo)
                 ELSE GoOn(Release(w1, "descriptor", w1.ret, "dc_descriptor_free"), 0))
         ELSE Do(ScanByProduct_prefix(w, it, lo, (lo + hi) \div 2, p), LAMBDA r :
                 IF r.rc # CONTINUE
                 THEN r
                 ELSE ScanByProduct_prefix(r.w, it, (lo + hi) \div 2 + 1, hi, p))

\* Iterations lo..hi of the inner while loop: the catalog entry with the
\* pattern's vendor and product.
RECURSIVE ScanByProduct(_, _, _, _, _)
ScanByProduct(w, it, lo, hi, p) ==
    IF lo > hi
    THEN GoOn(w, 0)
    ELSE IF lo = hi
         THEN Do(Acquire(w, "descriptor", "dc_iterator_next"), LAMBDA w1 :
                 IF catalog[lo].vendor = p.vendor /\ catalog[lo].product = p.product
                 THEN Found(Release(w1, "iterator", it, "dc_iterator_free"),
                            DC_STATUS_SUCCESS, w1.ret, lo)
                 ELSE GoOn(Release(w1, "descriptor", w1.ret, "dc_descriptor_free"), 0))
         ELSE Do(ScanByProduct(w, it, lo, (lo + hi) \div 2, p), LAMBDA r :
                 IF r.rc # CONTINUE
                 THEN r
                 ELSE ScanByProduct(r.w, it, (lo + hi) \div 2 + 1, hi, p))

\* dc_descriptor_filter(descriptor, DC_TRANSPORT_BLE, name)
dc_descriptor_filter(d, name) == name \in d.filter

\* The fallback loop without its test of the transports.
RECURSIVE ScanByFilter_any_transport(_, _, _, _, _)
ScanByFilter_any_transport(w, it, lo, hi, name) ==
    IF lo > hi
    THEN GoOn(w, 0)
    ELSE IF lo = hi
         THEN Do(Acquire(w, "descriptor", "dc_iterator_next"), LAMBDA w1 :
                 IF dc_descriptor_filter(catalog[lo], name)
                 THEN Found(Release(w1, "iterator", it, "dc_iterator_free"),
                            DC_STATUS_SUCCESS, w1.ret, lo)
                 ELSE GoOn(Release(w1, "descriptor", w1.ret, "dc_descriptor_free"), 0))
         ELSE Do(ScanByFilter_any_transport(w, it, lo, (lo + hi) \div 2, name), LAMBDA r :
                 IF r.rc # CONTINUE
                 THEN r
                 ELSE ScanByFilter_any_transport(r.w, it, (lo + hi) \div 2 + 1, hi, name))

\* Iterations lo..hi of the fallback loop: the first BLE-capable descriptor
\* whose filter accepts the name.
RECURSIVE ScanByFilter(_, _, _, _, _)
ScanByFilter(w, it, lo, hi, name) ==
    IF lo > hi
    THEN GoOn(w, 0)
    ELSE IF lo = hi
         THEN Do(Acquire(w, "descriptor", "dc_iterator_next"), LAMBDA w1 :
                 IF DC_TRANSPORT_BLE \in catalog[lo].transports
                    /\ dc_descriptor_filter(catalog[lo], name)
                 THEN Found(Release(w1, "iterator", it, "dc_iterator_free"),
                            DC_STATUS_SUCCESS, w1.ret, lo)
                 ELSE GoOn(Release(w1, "descriptor", w1.ret, "dc_descriptor_free"), 0))
         ELSE Do(ScanByFilter(w, it, lo, (lo + hi) \div 2, name), LAMBDA r :
                 IF r.rc # CONTINUE
                 THEN r
                 ELSE ScanByFilter(r.w, it, (lo + hi) \div 2 + 1, hi, name))

\* Lines 570-590; n counts the iterators the call has asked for.
FilterFallback(w, name, n, env) ==
    IF IteratorFails(env, n)
    THEN Found(Log(w, "dc_descriptor_iterator", NULL, FALSE), env.iterRc, NULL, 0)
    ELSE Do(Acquire(w, "iterator", "dc_descriptor_iterator"), LAMBDA w1 :
         Do(ScanByFilter(w1, w1.ret, 1, Len(catalog), name), LAMBDA r :
            IF r.rc # CONTINUE
            THEN r
            ELSE Found(Exhausted(r.w, w1.ret), DC_STATUS_UNSUPPORTED, NULL, 0)))

\* Entries lo..hi of the for loop over the pattern table, in table order; n
\* counts the iterators the call has asked for.  pattern is the entry that
\* produced the result.
RECURSIVE MatchPatterns(_, _, _, _, _, _, _)
MatchPatterns(w, name, patterns, lo, hi, n, env) ==
    IF lo > hi
    THEN GoOn(w, n)
    ELSE IF lo = hi
         THEN IF PatternMatches(patterns[lo], name)
              THEN IF IteratorFails(env, n)
                   THEN Found(Log(w, "dc_descriptor_iterator", NULL, FALSE),
                              env.iterRc, NULL, 0)
                   ELSE Do(Acquire(w, "iterator", "dc_descriptor_iterator"), LAMBDA w1 :
                        Do(ScanByProduct(w1, w1.ret, 1, Len(catalog), patterns[lo]),
                           LAMBDA r :
                           IF r.rc # CONTINUE
                           THEN [r EXCEPT !.pattern = lo]
                           ELSE GoOn(Exhausted(r.w, w1.ret), n + 1)))
              ELSE GoOn(w, n)
         ELSE Do(MatchPatterns(w, name, patterns, lo, (lo + hi) \div 2, n, env),
                 LAMBDA r :
                 IF r.rc # CONTINUE
                 THEN r
                 ELSE MatchPatterns(r.w, name, patterns, (lo + hi) \div 2 + 1, hi,
                                    r.n, env))

\* The table read from its last entry to its first.
Reversed(s) == [i \in 1..Len(s) |-> s[Len(s) + 1 - i]]

\* find_descriptor_by_name trying the entries of the table last to first.
find_descriptor_by_name_reversed(w, name, env) ==
    Do(Reversed(name_patterns), LAMBDA patterns :
    Do(MatchPatterns(Log(w, "find_descriptor_by_name", NULL, TRUE), name, patterns,
                     1, Len(patterns), 1, env), LAMBDA r :
       IF r.rc # CONTINUE
       THEN r
       ELSE FilterFallback(r.w, name, r.n, env)))

find_descriptor_by_name(w, name, env) ==
    Do(name_patterns, LAMBDA patterns :
    Do(MatchPatterns(Log(w, "find_descriptor_by_name", NULL, TRUE), name, patterns,
                     1, Len(patterns), 1, env), LAMBDA r :
       IF r.rc # CONTINUE
       THEN r
       ELSE FilterFallback(r.w, name, r.n, env)))

\* family and model are written only on success.
get_device_info_from_name(w, name, env) ==
    Do(find_descriptor_by_name(Log(w, "get_device_info_from_name", NULL, TRUE), name, env),
       LAMBDA r :
       IF r.rc # DC_STATUS_SUCCESS
       THEN [w |-> r.w, rc |-> r.rc, written |-> FALSE,
             family |-> DC_FAMILY_NULL, model |-> 0, idx |-> 0, pattern |-> 0]
       ELSE [w |-> Release(r.w, "descriptor", r.desc, "dc_descriptor_free"),
             rc |-> DC_STATUS_SUCCESS, written |-> TRUE,
             family |-> catalog[r.idx].type, model |-> catalog[r.idx].model,
             idx |-> r.idx, pattern |-> r.pattern])

\* get_formatted_device_name returning before dc_descriptor_free when the
\* malloc of the label fails.
get_formatted_device_name_early_return(w, name, env) ==
    Do(find_descriptor_by_name(Log(w, "get_formatted_device_name", NULL, TRUE), name, env),
       LAMBDA r :
       IF r.rc # DC_STATUS_SUCCESS
       THEN [w |-> r.w, rc |-> r.rc, result |-> [ptr |-> NULL, val |-> ""]]
       ELSE IF env.malloc_model
            THEN [w |-> Release(Log(r.w, "malloc(result)", 1, TRUE),
                                "descriptor", r.desc, "dc_descriptor_free"),
                  rc |-> r.rc,
                  result |-> [ptr |-> 1,
                              val |-> catalog[r.idx].vendor \o " "
                                      \o catalog[r.idx].product]]
            ELSE [w |-> Log(r.w, "malloc(result)", NULL, FALSE), rc |-> r.rc,
                  result |-> [ptr |-> NULL, val |-> ""]])

\* Lines 613-636.  The vendor and the product of a catalog descriptor are
\* never NULL; env.malloc_model says whether the malloc of the label
\* succeeds.  rc is what find_descriptor_by_name returned.
get_formatted_device_name(w, name, env) ==
    Do(find_descriptor_by_name(Log(w, "get_formatted_device_name", NULL, TRUE), name, env),
       LAMBDA r :
       IF r.rc # DC_STATUS_SUCCESS
       THEN [w |-> r.w, rc |-> r.rc, result |-> [ptr |-> NULL, val |-> ""]]
       ELSE Do(Log(r.w, "malloc(result)", IF env.malloc_model THEN 1 ELSE NULL,
                   env.malloc_model), LAMBDA w1 :
               [w |-> Release(w1, "descriptor", r.desc, "dc_descriptor_free"),
                rc |-> r.rc,
                result |-> IF env.malloc_model
                           THEN [ptr |-> 1,
                                 val |-> catalog[r.idx].vendor \o " "
                                         \o catalog[r.idx].product]
                           ELSE [ptr |-> NULL, val |-> ""]]))

-----------------------------------------------------------------------------
(* The session struct device_data_t, the stream and the device handle.      *)

\* A pointer to a buffer together with what the buffer holds.
Buf(ptr, val) == [ptr |-> ptr, val |-> val]
NullBuf == Buf(NULL, << >>)
NullStr == Buf(NULL, "")

NoDevinfo == [model |-> 0, firmware |-> 0, serial |-> 0]
NoProgress == [current |-> 0, maximum |-> 0]
NoClock == [systime |-> 0, devtime |-> 0]

\* memset(data, 0, sizeof(device_data_t)), calloc(1, sizeof(device_data_t))
ZeroData ==
    [device |-> NULL, context |-> NULL, iostream |-> NULL, descriptor |-> NULL,
     have_devinfo |-> 0, devinfo |-> NoDevinfo,
     have_progress |-> 0, progress |-> NoProgress,
     have_clock |-> 0, clock |-> NoClock,
     fingerprint |-> NullBuf, fsize |-> 0,
     fingerprint_context |-> NULL, lookup_fingerprint |-> NULL,
     model |-> NullStr]

\* ble_stream_t: base.context, base.transport, ble_object
NoStream == [context |-> NULL, transport |-> "", ble_object |-> NULL]

\* dc_device_t as the bridge sees it: the active fingerprint, the events asked
\* for and whether the callback is registered with the session as userdata.
NoDevice == [fingerprint |-> << >>, events |-> {}, callback |-> FALSE]

\* ble_iostream_create reporting a failed malloc as an I/O error.
ble_iostream_create_io(w, context, bleobj, env) ==
    IF ~env.malloc_stream
    THEN [w |-> Log(w, "malloc(ble_stream_t)", NULL, FALSE), rc |-> DC_STATUS_IO,
          out |-> NULL]
    ELSE Do(Acquire(w, "iostream", "malloc(ble_stream_t)"), LAMBDA w1 :
            [w |-> [w1 EXCEPT !.iostreamobj =
                       [context |-> context, transport |-> DC_TRANSPORT_BLE,
                        ble_object |-> bleobj]],
             rc |-> DC_STATUS_SUCCESS, out |-> w1.ret])

\* ble_iostream_create
ble_iostream_create(w, context, bleobj, env) ==
    IF ~env.malloc_stream
    THEN [w |-> Log(w, "malloc(ble_stream_t)", NULL, FALSE), rc |-> DC_STATUS_NOMEMORY,
          out |-> NULL]
    ELSE Do(Acquire(w, "iostream", "malloc(ble_stream_t)"), LAMBDA w1 :
            [w |-> [w1 EXCEPT !.iostreamobj =
                       [context |-> context, transport |-> DC_TRANSPORT_BLE,
                        ble_object |-> bleobj]],
             rc |-> DC_STATUS_SUCCESS, out |-> w1.ret])

\* freeBLEObject
freeBLEObject(w, io) == Release(w, "ble", io, "freeBLEObject")

\* ble_close of the platform layer: on success the connection is gone.
ble_close(w, io, env) ==
    IF env.ble_close = DC_STATUS_SUCCESS
    THEN [Log(w, "ble_close", io, TRUE) EXCEPT !.heap["link"] = @ \ {io}]
    ELSE Log(w, "ble_close", io, FALSE)

\* ble_stream_close returning at once when ble_close has failed.
ble_stream_close_early_return(w, iostream, env) ==
    Do(w, LAMBDA w0 :
    Do(ble_close(w0, w0.iostreamobj.ble_object, env), LAMBDA w1 :
       IF env.ble_close # DC_STATUS_SUCCESS
       THEN [w |-> w1, rc |-> env.ble_close]
       ELSE Do(freeBLEObject(w1, w0.iostreamobj.ble_object), LAMBDA w2 :
            Do(Release(w2, "iostream", iostream, "free(ble_stream_t)"), LAMBDA w3 :
               [w |-> [w3 EXCEPT !.iostreamobj = NoStream], rc |-> env.ble_close]))))

\* ble_stream_close
ble_stream_close(w, iostream, env) ==
    Do(w, LAMBDA w0 :
    Do(ble_close(w0, w0.iostreamobj.ble_object, env), LAMBDA w1 :
    Do(freeBLEObject(w1, w0.iostreamobj.ble_object), LAMBDA w2 :
    Do(Release(w2, "iostream", iostream, "free(ble_stream_t)"), LAMBDA w3 :
       [w |-> [w3 EXCEPT !.iostreamobj = NoStream], rc |-> env.ble_close]))))

\* ble_packet_open
ble_packet_open(w, context, devaddr, env) ==
    Do(Log(w, "initializeBLEManager", NULL, TRUE), LAMBDA w0 :
       IF ~env.createBLEObject
       THEN [w |-> Log(w0, "createBLEObject", NULL, FALSE), rc |-> DC_STATUS_NOMEMORY,
             out |-> NULL]
       ELSE Do(Acquire(w0, "ble", "createBLEObject"), LAMBDA w1 :
               IF ~env.connect
               THEN [w |-> freeBLEObject(Log(w1, "connectToBLEDevice", w1.ret, FALSE),
                                         w1.ret),
                     rc |-> DC_STATUS_IO, out |-> NULL]
               ELSE Do([Log(w1, "connectToBLEDevice", w1.ret, TRUE)
                           EXCEPT !.heap["link"] = @ \cup {w1.ret}], LAMBDA w2 :
                    Do(ble_iostream_create(w2, context, w1.ret, env), LAMBDA r :
                       IF r.rc # DC_STATUS_SUCCESS
                       THEN [w |-> freeBLEObject(r.w, w1.ret), rc |-> r.rc, out |-> NULL]
                       ELSE [w |-> r.w, rc |-> DC_STATUS_SUCCESS, out |-> r.out]))))

\* dc_iostream_close of libdivecomputer dispatches to the vtable's close.
dc_iostream_close(w, iostream, env) ==
    ble_stream_close(Log(w, "dc_iostream_close", iostream, TRUE), iostream, env).w

\* dc_device_close
dc_device_close(w, device) ==
    [Release(w, "device", device, "dc_device_close") EXCEPT !.devobj = NoDevice]

\* close_device_data closing the stream before the device handle.
close_device_data_stream_first(w, env) ==
    Do(w, LAMBDA w0 :
    Do(IF w0.data.fingerprint.ptr # NULL
       THEN [Release(w0, "fingerprint", w0.data.fingerprint.ptr, "free(fingerprint)")
                EXCEPT !.data.fingerprint = NullBuf, !.data.fsize = 0]
       ELSE w0, LAMBDA w1 :
    Do(IF w1.data.model.ptr # NULL
       THEN [Release(w1, "model", w1.data.model.ptr, "free(model)")
                EXCEPT !.data.model = NullStr]
       ELSE w1, LAMBDA w2 :
    Do(IF w2.data.iostream # NULL
       THEN [dc_iostream_close(w2, w2.data.iostream, env) EXCEPT !.data.iostream = NULL]
       ELSE w2, LAMBDA w3 :
    Do(IF w3.data.device # NULL
       THEN [dc_device_close(w3, w3.data.device) EXCEPT !.data.device = NULL]
       ELSE w3, LAMBDA w4 :
    Do(IF w4.data.context # NULL
       THEN [Release(w4, "context", w4.data.context, "dc_context_free")
                EXCEPT !.data.context = NULL]
       ELSE w4, LAMBDA w5 :
       [w5 EXCEPT !.data.descriptor = NULL]))))))

\* close_device_data closing the device handle without clearing data->device.
close_device_data_keeps_pointer(w, env) ==
    Do(w, LAMBDA w0 :
    Do(IF w0.data.fingerprint.ptr # NULL
       THEN [Release(w0, "fingerprint", w0.data.fingerprint.ptr, "free(fingerprint)")
                EXCEPT !.data.fingerprint = NullBuf, !.data.fsize = 0]
       ELSE w0, LAMBDA w1 :
    Do(IF w1.data.model.ptr # NULL
       THEN [Release(w1, "model", w1.data.model.ptr, "free(model)")
                EXCEPT !.data.model = NullStr]
       ELSE w1, LAMBDA w2 :
    Do(IF w2.data.device # NULL
       THEN dc_device_close(w2, w2.data.device)
       ELSE w2, LAMBDA w3 :
    Do(IF w3.data.iostream # NULL
       THEN [dc_iostream_close(w3, w3.data.iostream, env) EXCEPT !.data.iostream = NULL]
       ELSE w3, LAMBDA w4 :
    Do(IF w4.data.context # NULL
       THEN [Release(w4, "context", w4.data.context, "dc_context_free")
                EXCEPT !.data.context = NULL]
       ELSE w4, LAMBDA w5 :
       [w5 EXCEPT !.data.descriptor = NULL]))))))

\* close_device_data
close_device_data(w, env) ==
    Do(w, LAMBDA w0 :
    Do(IF w0.data.fingerprint.ptr # NULL
       THEN [Release(w0, "fingerprint", w0.data.fingerprint.ptr, "free(fingerprint)")
                EXCEPT !.data.fingerprint = NullBuf, !.data.fsize = 0]
       ELSE w0, LAMBDA w1 :
    Do(IF w1.data.model.ptr # NULL
       THEN [Release(w1, "model", w1.data.model.ptr, "free(model)")
                EXCEPT !.data.model = NullStr]
       ELSE w1, LAMBDA w2 :
    Do(IF w2.data.device # NULL
       THEN [dc_device_close(w2, w2.data.device) EXCEPT !.data.device = NULL]
       ELSE w2, LAMBDA w3 :
    Do(IF w3.data.iostream # NULL
       THEN [dc_iostream_close(w3, w3.data.iostream, env) EXCEPT !.data.iostream = NULL]
       ELSE w3, LAMBDA w4 :
    Do(IF w4.data.context # NULL
       THEN [Release(w4, "context", w4.data.context, "dc_context_free")
                EXCEPT !.data.context = NULL]
       ELSE w4, LAMBDA w5 :
       [w5 EXCEPT !.data.descriptor = NULL]))))))

-----------------------------------------------------------------------------
(* open_ble_device.                                                         *)

\* A C string argument: a pointer (NULL or not) and the characters it points to.
CStr(s) == Buf(1, s)

OpenEvents == {DC_EVENT_DEVINFO, DC_EVENT_PROGRESS, DC_EVENT_CLOCK}

\* InvalidArgs with the test of devaddr left out.
InvalidArgs_data_only(dataArg, devaddr) == dataArg = NULL

\* Line 313: if (!data || !devaddr)
InvalidArgs(dataArg, devaddr) == dataArg = NULL \/ devaddr.ptr = NULL

\* Lines 361-379: store the descriptor and the "Vendor Product" label.
StoreDescriptor(w, descriptor, idx, env) ==
    Do([w EXCEPT !.data.descriptor = descriptor], LAMBDA w1 :
       IF descriptor # NULL
       THEN IF env.malloc_model
            THEN Do(Acquire(w1, "model", "malloc(model)"), LAMBDA w2 :
                    [w2 EXCEPT !.data.model =
                        Buf(w2.ret, catalog[idx].vendor \o " " \o catalog[idx].product)])
            ELSE Log(w1, "malloc(model)", NULL, FALSE)
       ELSE w1)

\* Lines 343-379: dc_device_open, dc_device_set_events and what follows.
OpenDevice(w, descriptor, idx, env) ==
    IF env.device_open # DC_STATUS_SUCCESS
    THEN [w |-> close_device_data(Log(w, "dc_device_open", NULL, FALSE), env),
          rc |-> env.device_open]
    ELSE Do(Acquire(w, "device", "dc_device_open"), LAMBDA w1 :
         Do([w1 EXCEPT !.data.device = w1.ret, !.devobj = NoDevice], LAMBDA w2 :
            IF env.set_events # DC_STATUS_SUCCESS
            THEN [w |-> close_device_data(
                            Log(w2, "dc_device_set_events", w2.data.device, FALSE), env),
                  rc |-> env.set_events]
            ELSE [w |-> StoreDescriptor(
                            [Log(w2, "dc_device_set_events", w2.data.device, TRUE)
                                EXCEPT !.devobj.events = OpenEvents,
                                       !.devobj.callback = TRUE],
                            descriptor, idx, env),
                  rc |-> DC_STATUS_SUCCESS]))

\* open_ble_device connecting before it has looked for the descriptor.
open_ble_device_connect_first(w, dataArg, devaddr, family, model, env) ==
    IF InvalidArgs(dataArg, devaddr)
    THEN [w |-> w, rc |-> DC_STATUS_INVALIDARGS]
    ELSE Do([Log(w, "memset", NULL, TRUE) EXCEPT
                !.data = ZeroData, !.devobj = NoDevice, !.iostreamobj = NoStream],
            LAMBDA w0 :
            IF env.context_new # DC_STATUS_SUCCESS
            THEN [w |-> Log(w0, "dc_context_new", NULL, FALSE), rc |-> env.context_new]
            ELSE Do(Acquire(w0, "context", "dc_context_new"), LAMBDA w1 :
                 Do(ble_packet_open([w1 EXCEPT !.data.context = w1.ret], w1.ret,
                                    devaddr, env), LAMBDA b :
                    IF b.rc # DC_STATUS_SUCCESS
                    THEN [w |-> close_device_data(b.w, env), rc |-> b.rc]
                    ELSE Do(find_descriptor_by_model([b.w EXCEPT !.data.iostream = b.out],
                                                     family, model, env), LAMBDA d :
                            IF d.rc # DC_STATUS_SUCCESS
                            THEN [w |-> close_device_data(d.w, env), rc |-> d.rc]
                            ELSE OpenDevice(d.w, d.desc, d.idx, env)))))

\* open_ble_device clearing the struct but for the lookup function and its
\* context.
open_ble_device_keeps_lookup(w, dataArg, devaddr, family, model, env) ==
    IF InvalidArgs(dataArg, devaddr)
    THEN [w |-> w, rc |-> DC_STATUS_INVALIDARGS]
    ELSE Do([Log(w, "memset", NULL, TRUE) EXCEPT
                !.data = [ZeroData EXCEPT
                             !.lookup_fingerprint = w.data.lookup_fingerprint,
                             !.fingerprint_context = w.data.fingerprint_context],
                !.devobj = NoDevice, !.iostreamobj = NoStream],
            LAMBDA w0 :
            IF env.context_new # DC_STATUS_SUCCESS
            THEN [w |-> Log(w0, "dc_context_new", NULL, FALSE), rc |-> env.context_new]
            ELSE Do(Acquire(w0, "context", "dc_context_new"), LAMBDA w1 :
                 Do(find_descriptor_by_model([w1 EXCEPT !.data.context = w1.ret],
                                             family, model, env), LAMBDA d :
                    IF d.rc # DC_STATUS_SUCCESS
                    THEN [w |-> close_device_data(d.w, env), rc |-> d.rc]
                    ELSE Do(ble_packet_open(d.w, d.w.data.context, devaddr, env), LAMBDA b :
                            IF b.rc # DC_STATUS_SUCCESS
                            THEN [w |-> close_device_data(b.w, env), rc |-> b.rc]
                            ELSE OpenDevice([b.w EXCEPT !.data.iostream = b.out],
                                            d.desc, d.idx, env)))))

open_ble_device(w, dataArg, devaddr, family, model, env) ==
    IF InvalidArgs(dataArg, devaddr)
    THEN [w |-> w, rc |-> DC_STATUS_INVALIDARGS]
    ELSE Do([Log(w, "memset", NULL, TRUE) EXCEPT
                !.data = ZeroData, !.devobj = NoDevice, !.iostreamobj = NoStream],
            LAMBDA w0 :
            IF env.context_new # DC_STATUS_SUCCESS
            THEN [w |-> Log(w0, "dc_context_new", NULL, FALSE), rc |-> env.context_new]
            ELSE Do(Acquire(w0, "context", "dc_context_new"), LAMBDA w1 :
                 Do(find_descriptor_by_model([w1 EXCEPT !.data.context = w1.ret],
                                             family, model, env), LAMBDA d :
                    IF d.rc # DC_STATUS_SUCCESS
                    THEN [w |-> close_device_data(d.w, env), rc |-> d.rc]
                    ELSE Do(ble_packet_open(d.w, d.w.data.context, devaddr, env), LAMBDA b :
                            IF b.rc # DC_STATUS_SUCCESS
                            THEN [w |-> close_device_data(b.w, env), rc |-> b.rc]
                            ELSE OpenDevice([b.w EXCEPT !.data.iostream = b.out],
                                            d.desc, d.idx, env)))))

-----------------------------------------------------------------------------
(* reopen_ble_device_with_model: configuredc.h declares it; what it does is  *)
(* taken from the description of reopen_with_model.                          *)

\* Descriptor resolution and device open of a reopen, once the prior device
\* handle is out of the way: the stream and the context of the session are
\* used as they are, and a failure leaves nothing of the attempt behind.
ReopenDevice(w, family, model, env) ==
    Do(find_descriptor_by_model(w, family, model, env), LAMBDA d :
       IF d.rc # DC_STATUS_SUCCESS
       THEN [w |-> d.w, rc |-> d.rc]
       ELSE IF env.device_open # DC_STATUS_SUCCESS
            THEN [w |-> Release(Log(d.w, "dc_device_open", NULL, FALSE),
                                "descriptor", d.desc, "dc_descriptor_free"),
                  rc |-> env.device_open]
            ELSE Do(Acquire(d.w, "device", "dc_device_open"), LAMBDA w1 :
                    [w |-> [w1 EXCEPT !.data.device = w1.ret, !.devobj = NoDevice,
                                      !.data.descriptor = d.desc],
                     rc |-> DC_STATUS_SUCCESS]))

\* The descriptor of the open before, if the session holds one, is released.
DropDescriptor(w) ==
    IF w.data.descriptor # NULL
    THEN [Release(w, "descriptor", w.data.descriptor, "dc_descriptor_free")
             EXCEPT !.data.descriptor = NULL]
    ELSE w

\* reopen_ble_device_with_model opening the new device handle while the
\* prior one is still open.
reopen_ble_device_with_model_keeps_device(w, dataArg, family, model, env) ==
    IF dataArg = NULL \/ w.data.context = NULL \/ w.data.iostream = NULL
    THEN [w |-> w, rc |-> DC_STATUS_INVALIDARGS]
    ELSE Do(DropDescriptor(w), LAMBDA w1 : ReopenDevice(w1, family, model, env))

\* reopen_ble_device_with_model(data, family, model); data must have a valid
\* context and iostream.
reopen_ble_device_with_model(w, dataArg, family, model, env) ==
    IF dataArg = NULL \/ w.data.context = NULL \/ w.data.iostream = NULL
    THEN [w |-> w, rc |-> DC_STATUS_INVALIDARGS]
    ELSE Do(IF w.data.device # NULL
            THEN [dc_device_close(w, w.data.device) EXCEPT !.data.device = NULL]
            ELSE w, LAMBDA w0 :
         Do(DropDescriptor(w0), LAMBDA w1 : ReopenDevice(w1, family, model, env)))

-----------------------------------------------------------------------------
(* open_ble_device_with_identification.                                     *)

\* free(data): the struct is gone, and data is again storage of the caller.
FreeData(w) ==
    Do(w, LAMBDA v :
       [Release(v, "data", v.cur, "free(data)") EXCEPT !.cur = NULL, !.data = ZeroData])

\* Lines 661-675: identify by name and open with what was found.
IdentifyAndOpen(w, name, address, envR, env2) ==
    Do(get_device_info_from_name(w, name, envR), LAMBDA g :
       IF g.rc # DC_STATUS_SUCCESS
       THEN [w |-> FreeData(g.w), rc |-> g.rc, resolved |-> g, fallback_rc |-> "none"]
       ELSE Do(open_ble_device(g.w, g.w.cur, address, g.family, g.model, env2), LAMBDA o :
               IF o.rc # DC_STATUS_SUCCESS
               THEN [w |-> FreeData(o.w), rc |-> o.rc, resolved |-> g,
                     fallback_rc |-> o.rc]
               ELSE [w |-> [o.w EXCEPT !.out_data = o.w.cur],
                     rc |-> DC_STATUS_SUCCESS, resolved |-> g, fallback_rc |-> o.rc]))

\* open_ble_device_with_identification giving up when the stored attempt fails.
open_ble_device_with_identification_no_fallback(w, name, address, stored_family, stored_model, env1, envR, env2) ==
    IF ~env1.calloc
    THEN [w |-> Log(w, "calloc(data)", NULL, FALSE), rc |-> DC_STATUS_NOMEMORY,
          stored_rc |-> "none", fallback_rc |-> "none"]
    ELSE Do(Acquire(w, "data", "calloc(data)"), LAMBDA wa :
         Do([wa EXCEPT !.cur = wa.ret, !.data = ZeroData,
                       !.devobj = NoDevice, !.iostreamobj = NoStream], LAMBDA w0 :
            IF stored_family # DC_FAMILY_NULL /\ stored_model # 0
            THEN Do(open_ble_device(w0, w0.cur, address, stored_family, stored_model,
                                    env1), LAMBDA s :
                    IF s.rc = DC_STATUS_SUCCESS
                    THEN [w |-> [s.w EXCEPT !.out_data = s.w.cur],
                          rc |-> DC_STATUS_SUCCESS,
                          stored_rc |-> s.rc, fallback_rc |-> "none"]
                    ELSE [w |-> FreeData(s.w), rc |-> s.rc,
                          stored_rc |-> s.rc, fallback_rc |-> "none"])
            ELSE Do(IdentifyAndOpen(w0, name, address, envR, env2), LAMBDA f :
                    [w |-> f.w, rc |-> f.rc,
                     stored_rc |-> "none", fallback_rc |-> f.fallback_rc])))

\* stored_rc and fallback_rc are what the two calls of open_ble_device
\* returned ("none": the call was not made).
open_ble_device_with_identification(w, name, address, stored_family, stored_model, env1, envR, env2) ==
    IF ~env1.calloc
    THEN [w |-> Log(w, "calloc(data)", NULL, FALSE), rc |-> DC_STATUS_NOMEMORY,
          stored_rc |-> "none", fallback_rc |-> "none"]
    ELSE Do(Acquire(w, "data", "calloc(data)"), LAMBDA wa :
         Do([wa EXCEPT !.cur = wa.ret, !.data = ZeroData,
                       !.devobj = NoDevice, !.iostreamobj = NoStream], LAMBDA w0 :
            IF stored_family # DC_FAMILY_NULL /\ stored_model # 0
            THEN Do(open_ble_device(w0, w0.cur, address, stored_family, stored_model,
                                    env1), LAMBDA s :
                    IF s.rc = DC_STATUS_SUCCESS
                    THEN [w |-> [s.w EXCEPT !.out_data = s.w.cur],
                          rc |-> DC_STATUS_SUCCESS,
                          stored_rc |-> s.rc, fallback_rc |-> "none"]
                    ELSE Do(IdentifyAndOpen(s.w, name, address, envR, env2), LAMBDA f :
                            [w |-> f.w, rc |-> f.rc,
                             stored_rc |-> s.rc, fallback_rc |-> f.fallback_rc]))
            ELSE Do(IdentifyAndOpen(w0, name, address, envR, env2), LAMBDA f :
                    [w |-> f.w, rc |-> f.rc,
                     stored_rc |-> "none", fallback_rc |-> f.fallback_rc])))

-----------------------------------------------------------------------------
(* The event callback.                                                      *)

\* A 32-bit unsigned value is kept as its four bytes, most significant first.
HexDigit(n) == SubSeq("0123456789abcdef", n + 1, n + 1)
HexByte(b) == HexDigit(b \div 16) \o HexDigit(b % 16)

\* The serial printed with "%08X".
Hex8_upper(word) ==
    Do([n \in 0..15 |-> SubSeq("0123456789ABCDEF", n + 1, n + 1)], LAMBDA digit :
       digit[word[1] \div 16] \o digit[word[1] % 16]
       \o digit[word[2] \div 16] \o digit[word[2] % 16]
       \o digit[word[3] \div 16] \o digit[word[3] % 16]
       \o digit[word[4] \div 16] \o digit[word[4] % 16])

\* snprintf(serial, sizeof(serial), "%08x", devinfo->serial)
Hex8(word) == HexByte(word[1]) \o HexByte(word[2]) \o HexByte(word[3]) \o HexByte(word[4])

\* dc_device_set_fingerprint of libdivecomputer: on success the bytes become
\* the active fingerprint of the device handle.
dc_device_set_fingerprint(w, device, bytes, fsize, env) ==
    IF env.set_fingerprint = DC_STATUS_SUCCESS
    THEN [Log(w, "dc_device_set_fingerprint", device, TRUE)
             EXCEPT !.devobj.fingerprint = SubSeq(bytes, 1, fsize)]
    ELSE Log(w, "dc_device_set_fingerprint", device, FALSE)

\* LookupFingerprint handing the bytes to the device handle without keeping them.
LookupFingerprint_not_retained(w, device, devinfo, env) ==
    Do([w EXCEPT !.lookups = Append(@,
            [context |-> w.data.fingerprint_context,
             device_type |-> w.data.model.val, serial |-> Hex8(devinfo.serial)])],
       LAMBDA called :
    Do(IF env.lookup.buf
       THEN Acquire(called, "fingerprint", "lookup_fingerprint")
       ELSE [Log(called, "lookup_fingerprint", NULL, TRUE) EXCEPT !.ret = NULL],
       LAMBDA w1 :
       IF w1.ret # NULL /\ env.lookup.fsize > 0
       THEN dc_device_set_fingerprint(w1, device, env.lookup.bytes, env.lookup.fsize, env)
       ELSE w1))

\* Lines 230-259: the call of the lookup function and what is done with its
\* answer.  env.lookup is what the function of the application answers: a
\* buffer (or NULL), its bytes and the size it reports.
LookupFingerprint(w, device, devinfo, env) ==
    Do([w EXCEPT !.lookups = Append(@,
            [context |-> w.data.fingerprint_context,
             device_type |-> w.data.model.val, serial |-> Hex8(devinfo.serial)])],
       LAMBDA called :
    Do(IF env.lookup.buf
       THEN Acquire(called, "fingerprint", "lookup_fingerprint")
       ELSE [Log(called, "lookup_fingerprint", NULL, TRUE) EXCEPT !.ret = NULL],
       LAMBDA w1 :
       IF w1.ret # NULL /\ env.lookup.fsize > 0
       THEN [dc_device_set_fingerprint(w1, device, env.lookup.bytes, env.lookup.fsize, env)
                EXCEPT !.data.fingerprint = Buf(w1.ret, env.lookup.bytes),
                       !.data.fsize = env.lookup.fsize]
       ELSE w1))

\* ble_device_event_cb whose DC_EVENT_PROGRESS case sets have_devinfo.
ble_device_event_cb_wrong_flag(w, device, event, payload, userdata, env) ==
    IF userdata = NULL
    THEN w
    ELSE CASE event = DC_EVENT_DEVINFO ->
                Do([w EXCEPT !.data.devinfo = payload, !.data.have_devinfo = 1],
                   LAMBDA w1 :
                   IF w1.data.lookup_fingerprint # NULL /\ w1.data.model.ptr # NULL
                   THEN LookupFingerprint(w1, device, payload, env)
                   ELSE w1)
           [] event = DC_EVENT_PROGRESS ->
                [w EXCEPT !.data.progress = payload, !.data.have_devinfo = 1]
           [] OTHER -> w

ble_device_event_cb(w, device, event, payload, userdata, env) ==
    IF userdata = NULL
    THEN w
    ELSE CASE event = DC_EVENT_DEVINFO ->
                Do([w EXCEPT !.data.devinfo = payload, !.data.have_devinfo = 1],
                   LAMBDA w1 :
                   IF w1.data.lookup_fingerprint # NULL /\ w1.data.model.ptr # NULL
                   THEN LookupFingerprint(w1, device, payload, env)
                   ELSE w1)
           [] event = DC_EVENT_PROGRESS ->
                [w EXCEPT !.data.progress = payload, !.data.have_progress = 1]
           [] OTHER -> w

-----------------------------------------------------------------------------
(* The stream adapter's read.                                               *)

Min(a, b) == IF a < b THEN a ELSE b

\* ble_read of the platform layer (BLEBridge.h declares it): arrived is what
\* the peripheral has notified when the call returns, hard a failure of the
\* link.  Nothing notified before the timeout is a timeout.
ble_read(io, size, arrived, hard) ==
    IF hard
    THEN [rc |-> DC_STATUS_IO, actual |-> 0, data |-> << >>]
    ELSE IF Len(arrived) = 0
         THEN [rc |-> DC_STATUS_TIMEOUT, actual |-> 0, data |-> << >>]
         ELSE [rc |-> DC_STATUS_SUCCESS, actual |-> Min(Len(arrived), size),
               data |-> SubSeq(arrived, 1, Min(Len(arrived), size))]

\* ble_stream_read taking fewer bytes than asked for as a failure.
ble_stream_read_short_fails(w, size, arrived, hard) ==
    Do(ble_read(w.iostreamobj.ble_object, size, arrived, hard), LAMBDA t :
       IF t.rc = DC_STATUS_SUCCESS /\ t.actual < size
       THEN [rc |-> DC_STATUS_IO, actual |-> t.actual, data |-> t.data]
       ELSE [rc |-> t.rc, actual |-> t.actual, data |-> t.data])

\* ble_stream_read: what ble_read answered goes back as it is; the block
\* under "rc == DC_STATUS_SUCCESS && actual && *actual > 0" only reads.
ble_stream_read(w, size, arrived, hard) ==
    Do(ble_read(w.iostreamobj.ble_object, size, arrived, hard), LAMBDA t :
       [rc |-> t.rc, actual |-> t.actual, data |-> t.data])

-----------------------------------------------------------------------------
(* What the environment may answer.                                         *)

\* Every call succeeds.
OkEnv ==
    [calloc |-> TRUE, context_new |-> DC_STATUS_SUCCESS,
     iterFail |-> 0, iterRc |-> DC_STATUS_NOMEMORY,
     createBLEObject |-> TRUE, connect |-> TRUE, malloc_stream |-> TRUE,
     device_open |-> DC_STATUS_SUCCESS, set_events |-> DC_STATUS_SUCCESS,
     malloc_model |-> TRUE, ble_close |-> DC_STATUS_SUCCESS]

\* One env per step of open_ble_device that may fail.
OpenEnvs ==
    {OkEnv,
     [OkEnv EXCEPT !.context_new = DC_STATUS_NOMEMORY],
     [OkEnv EXCEPT !.iterFail = 1],
     [OkEnv EXCEPT !.createBLEObject = FALSE],
     [OkEnv EXCEPT !.connect = FALSE],
     [OkEnv EXCEPT !.malloc_stream = FALSE],
     [OkEnv EXCEPT !.device_open = DC_STATUS_NODEVICE],
     [OkEnv EXCEPT !.device_open = DC_STATUS_PROTOCOL, !.ble_close = DC_STATUS_IO],
     [OkEnv EXCEPT !.set_events = DC_STATUS_INVALIDARGS],
     [OkEnv EXCEPT !.malloc_model = FALSE]}

\* Name resolution: which of its iterators, if any, cannot be created.
ResolveEnvs == {OkEnv, [OkEnv EXCEPT !.iterFail = 1], [OkEnv EXCEPT !.iterFail = 2]}

CloseEnvs == {OkEnv, [OkEnv EXCEPT !.ble_close = DC_STATUS_IO]}

\* What the lookup function of the application answers, and whether the
\* device handle takes the fingerprint.
Lookup(buf, bytes, fsize) == [buf |-> buf, bytes |-> bytes, fsize |-> fsize]

LookupResults ==
    {Lookup(FALSE, << >>, 0), Lookup(TRUE, << >>, 0),
     Lookup(TRUE, <<170, 187>>, 2), Lookup(TRUE, <<1, 2, 3>>, 3)}

EventEnvs ==
    {[lookup |-> l, set_fingerprint |-> DC_STATUS_SUCCESS] : l \in LookupResults}
    \cup {[lookup |-> Lookup(TRUE, <<170, 187>>, 2),
           set_fingerprint |-> DC_STATUS_UNSUPPORTED]}

\* Arguments of the entry points.
ValidAddress == CStr("C4:7C:8D:01:02:03")

Addresses == {NullStr, CStr(""), ValidAddress}

Pairs ==
    {<<"DC_FAMILY_SHEARWATER_PETREL", 3>>, <<"DC_FAMILY_SUUNTO_EONSTEEL", 0>>,
     <<"DC_FAMILY_SHEARWATER_PETREL", 99>>, <<DC_FAMILY_NULL, 0>>}

\* Calls of open_ble_device: every struct and address, every address and pair
\* where each step succeeds, and every failing step for a struct and an
\* address that are there; a pair the catalog lacks never gets past
\* find_descriptor_by_model, so the steps after it have nothing to answer.
OpenCases ==
    {<<NULL, a, <<"DC_FAMILY_SHEARWATER_PETREL", 3>>, OkEnv>> : a \in Addresses}
    \cup {<<1, a, p, OkEnv>> : a \in Addresses, p \in Pairs}
    \cup {<<1, ValidAddress, p, e>> :
              p \in {<<"DC_FAMILY_SHEARWATER_PETREL", 3>>,
                     <<"DC_FAMILY_SUUNTO_EONSTEEL", 0>>},
              e \in OpenEnvs}
    \cup {<<1, ValidAddress, <<"DC_FAMILY_SHEARWATER_PETREL", 99>>, e>> :
              e \in {[OkEnv EXCEPT !.context_new = DC_STATUS_NOMEMORY],
                     [OkEnv EXCEPT !.iterFail = 1]}}

SessionNames == {"Petrel", "EON Steel", "FQ001234", "Unknown"}

IdentAddresses == {NullStr, ValidAddress}

\* What the three stages of open_ble_device_with_identification meet: the
\* stored attempt, the resolution of the name and the second attempt.  One
\* stage fails at a time, or the stored attempt fails after it has connected
\* and the second attempt fails as well.
IdentEnvs ==
    {<<e1, OkEnv, OkEnv>> : e1 \in OpenEnvs}
    \cup {<<[OkEnv EXCEPT !.calloc = FALSE], OkEnv, OkEnv>>}
    \cup {<<OkEnv, eR, OkEnv>> : eR \in ResolveEnvs}
    \cup {<<e1, OkEnv, e2>> : e1 \in {OkEnv, [OkEnv EXCEPT !.device_open = DC_STATUS_NODEVICE]},
                             e2 \in OpenEnvs}

\* Calls of open_ble_device_with_identification: every name, address and
\* pair where each step succeeds, and every IdentEnvs for an address that
\* is there.
IdentCases ==
    {<<n, a, p, <<OkEnv, OkEnv, OkEnv>> >> :
        n \in SessionNames, a \in IdentAddresses, p \in Pairs}
    \cup {<<n, ValidAddress, p, e>> : n \in SessionNames, p \in Pairs, e \in IdentEnvs}

\* Advertised names put to name resolution: every key of the table, every
\* key followed by what a peripheral appends, and names no key is part of.
PatternKeys == {name_patterns[i].prefix : i \in 1..Len(name_patterns)}

Suffix == " 0123"

ResolveNames ==
    PatternKeys \cup {k \o Suffix : k \in PatternKeys} \cup SessionNames \cup {""}

\* Calls of reopen_ble_device_with_model: every pair, with each step of it
\* that may fail, and a null struct.
ReopenEnvs ==
    {OkEnv, [OkEnv EXCEPT !.iterFail = 1],
     [OkEnv EXCEPT !.device_open = DC_STATUS_NODEVICE]}

ReopenCases ==
    {<<NULL, <<"DC_FAMILY_SHEARWATER_PETREL", 3>>, OkEnv>>}
    \cup {<<1, p, e>> : p \in Pairs, e \in ReopenEnvs}

\* The opens a reopen follows: each pair with every step succeeding, and an
\* open that fails at dc_device_open.
OpensBeforeReopen ==
    {c \in OpenCases :
        /\ c[1] # NULL /\ c[2] = ValidAddress
        /\ c[4] \in {OkEnv, [OkEnv EXCEPT !.device_open = DC_STATUS_NODEVICE]}}

\* Device-info events by their serial: 0xDEADBEEF, 0x1, 0x00ADBEEF,
\* 0xFFFFFFFF and 0.
SerialDevinfos ==
    {[model |-> 3, firmware |-> 71, serial |-> b] :
        b \in {<<222, 173, 190, 239>>, <<0, 0, 0, 1>>, <<0, 173, 190, 239>>,
               <<255, 255, 255, 255>>, <<0, 0, 0, 0>>}}

\* The opens before such an event: one that stores the label, one whose
\* malloc of the label fails.
OpensBeforeSerial ==
    {c \in OpenCases :
        /\ c[1] # NULL /\ c[2] = ValidAddress
        /\ c[3] = <<"DC_FAMILY_SHEARWATER_PETREL", 3>>
        /\ c[4] \in {OkEnv, [OkEnv EXCEPT !.malloc_model = FALSE]}}

\* The lookup function finds nothing.
NothingFound == [lookup |-> Lookup(FALSE, << >>, 0), set_fingerprint |-> DC_STATUS_SUCCESS]

\* Repeated resolutions: a name the table remaps, a key with a suffix, a
\* name only a filter accepts and one nothing accepts; against the full
\* catalog and the full catalog without the Peregrine TX.
RepeatNames == {"Peregrine", "Perdix 2 0123", "FQ001234", "Unknown"}

RepeatEnvs == {OkEnv, [OkEnv EXCEPT !.iterFail = 1]}

RepeatCatalogs ==
    {FullCatalog,
     Without(FullCatalog,
             CHOOSE i \in 1..Len(FullCatalog) : FullCatalog[i].product = "Peregrine TX")}

\* One device-info event: a serial that needs the leading zero and has
\* digits above 9.
Devinfos == {[model |-> 3, firmware |-> 71, serial |-> <<0, 173, 190, 239>>]}

Progresses == {[current |-> 10, maximum |-> 100]}

Clocks == {[systime |-> 1000, devtime |-> 77]}

Payloads(event) ==
    CASE event = DC_EVENT_DEVINFO -> Devinfos
      [] event = DC_EVENT_PROGRESS -> Progresses
      [] OTHER -> Clocks

ReadSizes == {1, 4, 20}

\* Notified packets: none, shorter and longer than a request, and one with
\* 01 FF at offset 2 as the block in ble_stream_read looks for.
Arrivals == {<< >>, <<7>>, <<1, 2, 3>>, <<0, 0, 1, 255, 5, 9, 9, 9>>}

-----------------------------------------------------------------------------
(* The state machine.                                                       *)

W == [data |-> data, cur |-> cur, out_data |-> out_data, heap |-> heap,
      devobj |-> devobj, iostreamobj |-> iostreamobj, trace |-> << >>,
      faults |-> faults, ret |-> NULL, lookups |-> << >>]

Commit(w) ==
    /\ data' = w.data
    /\ cur' = w.cur
    /\ out_data' = w.out_data
    /\ heap' = w.heap
    /\ devobj' = w.devobj
    /\ iostreamobj' = w.iostreamobj
    /\ trace' = w.trace
    /\ faults' = w.faults

Init ==
    /\ data = ZeroData
    /\ cur = NULL
    /\ out_data = NULL
    /\ heap = EmptyHeap
    /\ devobj = NoDevice
    /\ iostreamobj = NoStream
    /\ catalog = SessionCatalog
    /\ trace = << >>
    /\ last = [op |-> "init", rc |-> DC_STATUS_SUCCESS]
    /\ faults = {}
    /\ nOpens = 0
    /\ nEvents = 0

\* The session at hand holds nothing.
Idle ==
    /\ data.device = NULL /\ data.iostream = NULL /\ data.context = NULL
    /\ data.fingerprint.ptr = NULL /\ data.model.ptr = NULL

\* open_ble_device called by the application on the session at hand.
Open(dataArg, devaddr, pair, env) ==
    /\ nOpens < MaxOpens
    /\ \E r \in {open_ble_device(W, dataArg, devaddr, pair[1], pair[2], env)} :
           /\ Commit(r.w)
           /\ last' = [op |-> "open_ble_device", rc |-> r.rc, data |-> dataArg,
                       devaddr |-> devaddr, family |-> pair[1], model |-> pair[2],
                       env |-> env, held |-> data]
    /\ nOpens' = nOpens + 1
    /\ UNCHANGED <<catalog, nEvents>>

\* open_ble_device_with_identification; the model follows one session at a
\* time, so a new one is asked for when the one at hand holds nothing.
OpenWithIdentification(name, address, pair, env1, envR, env2) ==
    /\ nOpens < MaxIdents
    /\ Idle
    /\ \E r \in {open_ble_device_with_identification(W, name, address, pair[1], pair[2],
                                                     env1, envR, env2)} :
           /\ Commit(r.w)
           /\ last' = [op |-> "open_ble_device_with_identification", rc |-> r.rc,
                       name |-> name, address |-> address,
                       stored_family |-> pair[1], stored_model |-> pair[2],
                       stored_rc |-> r.stored_rc, fallback_rc |-> r.fallback_rc,
                       env1 |-> IF r.stored_rc = "none" /\ env1.calloc THEN OkEnv ELSE env1,
                       envR |-> IF r.stored_rc = DC_STATUS_SUCCESS THEN OkEnv ELSE envR,
                       env2 |-> IF r.fallback_rc = "none" THEN OkEnv ELSE env2]
    /\ nOpens' = nOpens + 1
    /\ UNCHANGED <<catalog, nEvents>>

\* The device handle reports an event it was asked for to the callback
\* registered by open_ble_device.
DeliverEvent(event, payload, env) ==
    /\ nEvents < MaxEvents
    /\ data.device # NULL
    /\ devobj.callback
    /\ event \in devobj.events
    /\ \E w \in {ble_device_event_cb(W, data.device, event, payload, 1, env)} :
           /\ Commit(w)
           /\ last' = [op |-> "ble_device_event_cb", rc |-> DC_STATUS_SUCCESS,
                       event |-> event, payload |-> payload,
                       env |-> IF w.lookups = << >> THEN [lookup |-> Lookup(FALSE, << >>, 0),
                                                          set_fingerprint |-> DC_STATUS_SUCCESS]
                               ELSE env,
                       lookups |-> w.lookups, held |-> data]
    /\ nEvents' = nEvents + 1
    /\ UNCHANGED <<catalog, nOpens>>

\* The application installs its fingerprint lookup in the struct.
InstallLookup ==
    /\ data.lookup_fingerprint = NULL
    /\ data' = [data EXCEPT !.lookup_fingerprint = 1, !.fingerprint_context = 1]
    /\ trace' = << >>
    /\ last' = [op |-> "install_lookup", rc |-> DC_STATUS_SUCCESS]
    /\ UNCHANGED <<cur, out_data, heap, devobj, iostreamobj, catalog, faults, nOpens,
                   nEvents>>

\* close_device_data on the session at hand.
Close(env) ==
    /\ \E w \in {close_device_data(W, env)} : Commit(w)
    /\ last' = [op |-> "close_device_data", rc |-> DC_STATUS_SUCCESS, env |-> env,
                held |-> data]
    /\ UNCHANGED <<catalog, nOpens, nEvents>>

\* get_device_info_from_name called by the application on an advertised name.
Resolve(name, env) ==
    /\ last.op = "init"
    /\ \E g \in {get_device_info_from_name(W, name, env)} :
           /\ Commit(g.w)
           /\ last' = [op |-> "get_device_info_from_name", rc |-> g.rc, name |-> name,
                       env |-> env, written |-> g.written, family |-> g.family,
                       model |-> g.model, idx |-> g.idx, pattern |-> g.pattern]
    /\ UNCHANGED <<catalog, nOpens, nEvents>>

\* The protocol engine reads from the stream of the session.
StreamRead(size, arrived, hard) ==
    /\ data.iostream # NULL
    /\ \E r \in {ble_stream_read(W, size, arrived, hard)} :
           last' = [op |-> "ble_stream_read", rc |-> r.rc, size |-> size,
                    arrived |-> arrived, hard |-> hard, actual |-> r.actual,
                    data |-> r.data]
    /\ trace' = << >>
    /\ UNCHANGED <<data, cur, out_data, heap, devobj, iostreamobj, catalog, faults,
                   nOpens, nEvents>>

\* The session: opened by the application, events, close.
Next ==
    \/ \E c \in OpenCases : Open(c[1], c[2], c[3], c[4])
    \/ \E event \in {DC_EVENT_DEVINFO, DC_EVENT_PROGRESS, DC_EVENT_CLOCK, DC_EVENT_WAITING} :
         \E payload \in Payloads(event), env \in EventEnvs :
           DeliverEvent(event, payload, env)
    \/ InstallLookup
    \/ \E env \in CloseEnvs : Close(env)

Spec == Init /\ [][Next]_vars

\* The session opened through identification, and closed.
NextIdent ==
    \/ \E c \in IdentCases :
           OpenWithIdentification(c[1], c[2], c[3], c[4][1], c[4][2], c[4][3])
    \/ \E env \in CloseEnvs : Close(env)

SpecIdent == Init /\ [][NextIdent]_vars

\* The stream of an open session, read by the protocol engine.
NextStream ==
    \/ \E c \in OpenCases : Open(c[1], c[2], c[3], c[4])
    \/ \E size \in ReadSizes, arrived \in Arrivals, hard \in BOOLEAN :
           StreamRead(size, arrived, hard)
    \/ \E env \in CloseEnvs : Close(env)

SpecStream == Init /\ [][NextStream]_vars

\* Name resolution against each catalog.
InitName ==
    /\ data = ZeroData
    /\ cur = NULL
    /\ out_data = NULL
    /\ heap = EmptyHeap
    /\ devobj = NoDevice
    /\ iostreamobj = NoStream
    /\ catalog \in NameCatalogs
    /\ trace = << >>
    /\ last = [op |-> "init", rc |-> DC_STATUS_SUCCESS]
    /\ faults = {}
    /\ nOpens = 0
    /\ nEvents = 0

NextName == \E name \in ResolveNames, env \in ResolveEnvs : Resolve(name, env)

SpecName == InitName /\ [][NextName]_vars

\* What the calls of get_device_info_from_name made so far were given and
\* gave back.
History == IF "history" \in DOMAIN last THEN last.history ELSE << >>

\* get_device_info_from_name answering from what the call before it found.
ResolveAgain_cached(name, env) ==
    /\ Len(History) < MaxResolves
    /\ \E g \in {get_device_info_from_name(W, name, env)} :
           /\ Commit(g.w)
           /\ \E a \in {IF History # << >> /\ History[Len(History)].rc = DC_STATUS_SUCCESS
                         THEN [rc |-> DC_STATUS_SUCCESS,
                               family |-> History[Len(History)].family,
                               model |-> History[Len(History)].model]
                         ELSE [rc |-> g.rc, family |-> g.family, model |-> g.model]} :
                  last' = [op |-> "get_device_info_from_name", rc |-> a.rc, name |-> name,
                           env |-> env, written |-> a.rc = DC_STATUS_SUCCESS,
                           family |-> a.family, model |-> a.model, idx |-> g.idx,
                           pattern |-> g.pattern,
                           history |-> Append(History,
                               [name |-> name, rc |-> a.rc, family |-> a.family,
                                model |-> a.model,
                                created |-> \A i \in 1..Len(g.w.trace) :
                                    g.w.trace[i].call = "dc_descriptor_iterator"
                                    => g.w.trace[i].ok])]
    /\ UNCHANGED <<catalog, nOpens, nEvents>>

\* get_device_info_from_name called once more by the application.
ResolveAgain(name, env) ==
    /\ Len(History) < MaxResolves
    /\ \E g \in {get_device_info_from_name(W, name, env)} :
           /\ Commit(g.w)
           /\ last' = [op |-> "get_device_info_from_name", rc |-> g.rc, name |-> name,
                       env |-> env, written |-> g.written, family |-> g.family,
                       model |-> g.model, idx |-> g.idx, pattern |-> g.pattern,
                       history |-> Append(History,
                           [name |-> name, rc |-> g.rc, family |-> g.family,
                            model |-> g.model,
                            created |-> \A i \in 1..Len(g.w.trace) :
                                g.w.trace[i].call = "dc_descriptor_iterator"
                                => g.w.trace[i].ok])]
    /\ UNCHANGED <<catalog, nOpens, nEvents>>

\* Name resolution called again and again against one catalog.
InitRepeat ==
    /\ data = ZeroData
    /\ cur = NULL
    /\ out_data = NULL
    /\ heap = EmptyHeap
    /\ devobj = NoDevice
    /\ iostreamobj = NoStream
    /\ catalog \in RepeatCatalogs
    /\ trace = << >>
    /\ last = [op |-> "init", rc |-> DC_STATUS_SUCCESS]
    /\ faults = {}
    /\ nOpens = 0
    /\ nEvents = 0

NextRepeat == \E name \in RepeatNames, env \in RepeatEnvs : ResolveAgain(name, env)

SpecRepeat == InitRepeat /\ [][NextRepeat]_vars

\* reopen_ble_device_with_model called by the application on the session at
\* hand.
Reopen(dataArg, pair, env) ==
    /\ nOpens < MaxOpens
    /\ \E r \in {reopen_ble_device_with_model(W, dataArg, pair[1], pair[2], env)} :
           /\ Commit(r.w)
           /\ last' = [op |-> "reopen_ble_device_with_model", rc |-> r.rc,
                       data |-> dataArg, family |-> pair[1], model |-> pair[2],
                       env |-> env, held |-> data, heap |-> heap]
    /\ nOpens' = nOpens + 1
    /\ UNCHANGED <<catalog, nEvents>>

\* The session opened, reopened with another model, and closed.
NextReopen ==
    \/ \E c \in OpensBeforeReopen : Open(c[1], c[2], c[3], c[4])
    \/ \E c \in ReopenCases : Reopen(c[1], c[2], c[3])
    \/ \E env \in CloseEnvs : Close(env)

SpecReopen == Init /\ [][NextReopen]_vars

\* Device-info events with their serials, on a session with or without a
\* label and with or without a lookup function.
NextSerial ==
    \/ \E c \in OpensBeforeSerial : Open(c[1], c[2], c[3], c[4])
    \/ InstallLookup
    \/ \E payload \in SerialDevinfos : DeliverEvent(DC_EVENT_DEVINFO, payload, NothingFound)

SpecSerial == Init /\ [][NextSerial]_vars

\* find_descriptor_by_name called by itself: the descriptor is handed to
\* the caller.
Find(name, env) ==
    /\ last.op = "init"
    /\ \E r \in {find_descriptor_by_name(W, name, env)} :
           /\ Commit(r.w)
           /\ last' = [op |-> "find_descriptor_by_name", rc |-> r.rc, name |-> name,
                       env |-> env, desc |-> r.desc, idx |-> r.idx]
    /\ UNCHANGED <<catalog, nOpens, nEvents>>

\* The "Vendor Product" label of an advertised name.
Format(name, env) ==
    /\ last.op = "init"
    /\ \E r \in {get_formatted_device_name(W, name, env)} :
           /\ Commit(r.w)
           /\ last' = [op |-> "get_formatted_device_name", rc |-> r.rc, name |-> name,
                       env |-> env, result |-> r.result]
    /\ UNCHANGED <<catalog, nOpens, nEvents>>

\* The iterator failures of ResolveEnvs and a failing malloc of the label.
FormatEnvs == ResolveEnvs \cup {[OkEnv EXCEPT !.malloc_model = FALSE]}

\* Advertised names: every key of the table followed by what a peripheral
\* appends, and names no key is part of.
AccountNames == {k \o Suffix : k \in PatternKeys} \cup SessionNames

\* The three functions that resolve a name, each on every catalog.
NextAccount ==
    \/ \E name \in AccountNames, env \in ResolveEnvs : Find(name, env)
    \/ \E name \in AccountNames, env \in ResolveEnvs : Resolve(name, env)
    \/ \E name \in AccountNames, env \in FormatEnvs : Format(name, env)

SpecAccount == InitName /\ [][NextAccount]_vars

-----------------------------------------------------------------------------
(* Properties.                                                              *)

\* The places of the trace where call was made, and where it went through.
Calls(call) == {i \in 1..Len(trace) : trace[i].call = call}
Made(call) == {i \in Calls(call) : trace[i].ok}

\* What the last operation was.
OpenCalled ==
    /\ last.op = "open_ble_device"
    /\ last.data # NULL
    /\ last.devaddr.ptr # NULL
IdentCalled == last.op = "open_ble_device_with_identification"
Closed == last.op = "close_device_data"
EventDelivered == last.op = "ble_device_event_cb"
ReadDone == last.op = "ble_stream_read"
Resolved == last.op = "get_device_info_from_name"

HasDescriptor(family, model) ==
    \E i \in 1..Len(catalog) : catalog[i].type = family /\ catalog[i].model = model

HasProduct(vendor, product) ==
    \E i \in 1..Len(catalog) : catalog[i].vendor = vendor /\ catalog[i].product = product

\* The session is Ready: device handle, stream and context are there and
\* the event callback is registered.
Ready ==
    /\ data.device # NULL /\ data.iostream # NULL /\ data.context # NULL
    /\ devobj.callback

\* The calls that make and that release the resources of an open.
AcquiredBy ==
    [context |-> "dc_context_new", descriptor |-> "dc_iterator_next",
     ble |-> "createBLEObject", iostream |-> "malloc(ble_stream_t)",
     device |-> "dc_device_open"]
ReleasedBy ==
    [context |-> "dc_context_free", descriptor |-> "dc_descriptor_free",
     ble |-> "freeBLEObject", iostream |-> "free(ble_stream_t)",
     device |-> "dc_device_close"]

\* Every resource the last operation acquired it has released.
AllReleased ==
    \A k \in DOMAIN AcquiredBy :
        \A i \in Made(AcquiredBy[k]) :
            \E j \in Made(ReleasedBy[k]) : j > i /\ trace[j].obj = trace[i].obj

\* The status of the step of open_ble_device that fails under env.
FailingStatus(env, family, model) ==
    IF env.context_new # DC_STATUS_SUCCESS THEN env.context_new
    ELSE IF env.iterFail = 1 THEN env.iterRc
    ELSE IF ~HasDescriptor(family, model) THEN DC_STATUS_UNSUPPORTED
    ELSE IF ~env.createBLEObject THEN DC_STATUS_NOMEMORY
    ELSE IF ~env.connect THEN DC_STATUS_IO
    ELSE IF ~env.malloc_stream THEN DC_STATUS_NOMEMORY
    ELSE IF env.device_open # DC_STATUS_SUCCESS THEN env.device_open
    ELSE env.set_events

\* C1: when open_ble_device with non-null arguments returns a non-success
\* status, every resource acquired during the call (context, descriptor, BLE
\* handle, stream, device handle) has been released, the status is that of
\* the step that failed, and device, stream and context of the session are
\* null.
C1_FailedOpenUnwinds ==
    OpenCalled /\ last.rc # DC_STATUS_SUCCESS =>
        /\ AllReleased
        /\ last.rc = FailingStatus(last.env, last.family, last.model)
        /\ data.device = NULL /\ data.iostream = NULL /\ data.context = NULL

\* The table entries whose key is part of the key of entry k, k aside.
Broader(k) ==
    {j \in 1..Len(name_patterns) :
        /\ j # k
        /\ name_patterns[j].prefix # name_patterns[k].prefix
        /\ StrStr(name_patterns[k].prefix, name_patterns[j].prefix)}

\* The resolution ended with the vendor and product of table entry k.
ResolvedTo(k) ==
    /\ last.rc = DC_STATUS_SUCCESS
    /\ last.idx \in 1..Len(catalog)
    /\ catalog[last.idx].vendor = name_patterns[k].vendor
    /\ catalog[last.idx].product = name_patterns[k].product
    /\ last.family = catalog[last.idx].type
    /\ last.model = catalog[last.idx].model

C3_ValidStoredPairSkipsResolution ==
    /\ IdentCalled
    /\ HasDescriptor(last.stored_family, last.stored_model)
    /\ last.address.ptr # NULL
    /\ last.env1 = OkEnv
    => /\ Calls("get_device_info_from_name") = {}
       /\ Calls("find_descriptor_by_name") = {}

\* The name matches a table entry the catalog has, or the filter of a
\* BLE-capable descriptor accepts it.
NameResolves(name) ==
    \/ \E k \in 1..Len(name_patterns) :
           /\ PatternMatches(name_patterns[k], name)
           /\ HasProduct(name_patterns[k].vendor, name_patterns[k].product)
    \/ \E i \in 1..Len(catalog) :
           DC_TRANSPORT_BLE \in catalog[i].transports /\ name \in catalog[i].filter

\* The open with the stored pair was made and failed.
StoredAttemptFailed ==
    IdentCalled /\ last.stored_rc \notin {"none", DC_STATUS_SUCCESS}

\* C4: when the open with the stored pair fails, at whichever step, the name
\* is resolved instead, and if it matches a table entry or a BLE filter and
\* the open with the resolved pair meets no failure, the call returns success
\* with a Ready session handed out: the failure of the stored attempt is not
\* the result.
C4_FallbackSucceeds ==
    /\ StoredAttemptFailed
    /\ NameResolves(last.name)
    /\ last.address.ptr # NULL
    /\ last.envR = OkEnv /\ last.env2 = OkEnv
    => /\ last.rc = DC_STATUS_SUCCESS
       /\ last.fallback_rc = DC_STATUS_SUCCESS
       /\ Calls("get_device_info_from_name") # {}
       /\ Ready
       /\ out_data # NULL /\ out_data = cur

\* The stored attempt had connected and failed at dc_device_open, and the
\* call succeeded through the name.
C4_Witness ==
    /\ StoredAttemptFailed
    /\ last.stored_rc = DC_STATUS_NODEVICE
    /\ last.name = "FQ001234"
    /\ last.rc = DC_STATUS_SUCCESS
    /\ Ready

\* The lookup function was called and answered with a buffer of bytes.
LookupAnswered ==
    /\ EventDelivered
    /\ last.event = DC_EVENT_DEVINFO
    /\ last.lookups # << >>
    /\ last.env.lookup.buf
    /\ last.env.lookup.fsize > 0

\* C5: on a device-info event, when a lookup function is installed and
\* answers with a non-empty byte sequence for the model label and the
\* serial, the fingerprint the session stores (bytes and size) is that
\* sequence, and it has been handed to dc_device_set_fingerprint of the
\* session's device handle exactly once during the event.
C5_FingerprintAttached ==
    LookupAnswered =>
        /\ Len(last.lookups) = 1
        /\ last.lookups[1].device_type = last.held.model.val
        /\ data.fingerprint.ptr # NULL
        /\ data.fingerprint.val = last.env.lookup.bytes
        /\ data.fsize = last.env.lookup.fsize
        /\ Cardinality(Calls("dc_device_set_fingerprint")) = 1
        /\ \A i \in Calls("dc_device_set_fingerprint") : trace[i].obj = data.device
        /\ last.env.set_fingerprint = DC_STATUS_SUCCESS =>
               devobj.fingerprint = last.env.lookup.bytes

\* The lookup answered AA BB for the label of the Petrel 2 and the serial
\* 00adbeef, and the device handle took the bytes.
C5_Witness ==
    /\ LookupAnswered
    /\ last.lookups[1].device_type = "Shearwater Petrel 2"
    /\ last.lookups[1].serial = "00adbeef"
    /\ data.fingerprint.val = <<170, 187>>
    /\ devobj.fingerprint = <<170, 187>>

\* The releases of close_device_data, as the trace names them.
CloseCalls ==
    {"free(fingerprint)", "free(model)", "dc_device_close", "dc_iostream_close",
     "dc_context_free"}

IsCloseCall(e) == e.call \in CloseCalls

\* The release of object obj by call, if the session held one.
ReleaseOf(call, obj) == IF obj # NULL THEN <<Event(call, obj, TRUE)>> ELSE << >>

\* C6: close_device_data releases, of what the session holds, the
\* fingerprint bytes, then the model label, then the device handle, then the
\* stream, then the context, in that order and each once, and every one of
\* the five references is null afterwards.
C6_CloseOrder ==
    Closed =>
        /\ SelectSeq(trace, IsCloseCall) =
               ReleaseOf("free(fingerprint)", last.held.fingerprint.ptr)
               \o ReleaseOf("free(model)", last.held.model.ptr)
               \o ReleaseOf("dc_device_close", last.held.device)
               \o ReleaseOf("dc_iostream_close", last.held.iostream)
               \o ReleaseOf("dc_context_free", last.held.context)
        /\ data.fingerprint.ptr = NULL /\ data.model.ptr = NULL
        /\ data.device = NULL /\ data.iostream = NULL /\ data.context = NULL

\* A session that held all five has been closed.
C6_Witness ==
    /\ Closed
    /\ last.held.fingerprint.ptr # NULL /\ last.held.model.ptr # NULL
    /\ last.held.device # NULL /\ last.held.iostream # NULL
    /\ last.held.context # NULL
    /\ Len(SelectSeq(trace, IsCloseCall)) = 5

\* C7: in every state there is at most one live BLE connection handle, and
\* none when the session has no stream (it is closed, or its open failed).
C7_OneLiveHandle ==
    /\ Cardinality(heap["ble"]) <= 1
    /\ data.iostream = NULL => heap["ble"] = {}

\* C8: ble_stream_read returns the status and the byte count of ble_read
\* and the bytes as ble_read delivered them; so fewer bytes than asked for
\* are a success with the count of what came, and no byte before the timeout
\* is DC_STATUS_TIMEOUT, not DC_STATUS_IO.
C8_ReadPassesThrough ==
    ReadDone =>
        /\ last.rc = ble_read(iostreamobj.ble_object, last.size, last.arrived,
                              last.hard).rc
        /\ last.actual = ble_read(iostreamobj.ble_object, last.size, last.arrived,
                                  last.hard).actual
        /\ last.data = ble_read(iostreamobj.ble_object, last.size, last.arrived,
                                last.hard).data
        /\ ~last.hard /\ Len(last.arrived) \in 1..(last.size - 1) =>
               /\ last.rc = DC_STATUS_SUCCESS
               /\ last.actual = Len(last.arrived)
               /\ last.data = last.arrived
        /\ ~last.hard /\ Len(last.arrived) = 0 =>
               last.rc = DC_STATUS_TIMEOUT /\ last.rc # DC_STATUS_IO

\* Three bytes came where twenty were asked for.
C8_Witness ==
    /\ ReadDone
    /\ last.size = 20
    /\ last.arrived = <<1, 2, 3>>
    /\ last.rc = DC_STATUS_SUCCESS
    /\ last.actual = 3

\* C9: open_ble_device returns DC_STATUS_NOMEMORY when the BLE object or
\* the stream cannot be allocated, DC_STATUS_UNSUPPORTED when no descriptor
\* of the catalog has the family and model, DC_STATUS_IO when the connect
\* fails, and the status of dc_device_open as it is when that fails.
C9_OpenErrorKinds ==
    /\ OpenCalled
    /\ last.env.context_new = DC_STATUS_SUCCESS
    /\ last.env.iterFail # 1
    => IF ~HasDescriptor(last.family, last.model)
       THEN last.rc = DC_STATUS_UNSUPPORTED
       ELSE /\ ~last.env.createBLEObject => last.rc = DC_STATUS_NOMEMORY
            /\ last.env.createBLEObject /\ ~last.env.connect =>
                   last.rc = DC_STATUS_IO
            /\ last.env.createBLEObject /\ last.env.connect
                   /\ ~last.env.malloc_stream => last.rc = DC_STATUS_NOMEMORY
            /\ last.env.createBLEObject /\ last.env.connect
                   /\ last.env.malloc_stream
                   /\ last.env.device_open # DC_STATUS_SUCCESS =>
                   last.rc = last.env.device_open

\* The stream could not be allocated after the connect had succeeded.
C9_Witness ==
    /\ OpenCalled
    /\ HasDescriptor(last.family, last.model)
    /\ last.env.connect /\ ~last.env.malloc_stream
    /\ last.rc = DC_STATUS_NOMEMORY
    /\ Made("connectToBLEDevice") # {}

\* The last operation was open_ble_device and made no call at all, and the
\* session is as it was.
NothingDone ==
    /\ last.rc = DC_STATUS_INVALIDARGS
    /\ trace = << >>
    /\ data = last.held

\* C10 as stated: open_ble_device with an empty address fails with
\* DC_STATUS_INVALIDARGS, creates no context, resolves no descriptor,
\* attempts no connection and leaves the session unchanged.
C10_EmptyAddressRejected ==
    /\ last.op = "open_ble_device"
    /\ last.data # NULL
    /\ last.devaddr.val = ""
    => NothingDone

\* C10: open_ble_device with a null address fails with
\* DC_STATUS_INVALIDARGS, creates no context, resolves no descriptor,
\* attempts no connection and leaves the session unchanged; an address that
\* is not null, the empty string included, is not refused by this test, and
\* the session is reset.
C10_NullAddressRejected ==
    /\ last.op = "open_ble_device"
    /\ last.data # NULL
    => IF last.devaddr.ptr = NULL
       THEN NothingDone
       ELSE Calls("memset") # {}

\* A Ready session was handed to open_ble_device with a null address.
C10_Witness ==
    /\ last.op = "open_ble_device"
    /\ last.data # NULL
    /\ last.devaddr.ptr = NULL
    /\ last.rc = DC_STATUS_INVALIDARGS
    /\ Ready
    /\ data.model.ptr # NULL

\* The table has an entry that matches the name and whose product the
\* catalog holds.
TableYields(name) ==
    \E k \in 1..Len(name_patterns) :
        /\ PatternMatches(name_patterns[k], name)
        /\ HasProduct(name_patterns[k].vendor, name_patterns[k].product)

\* The BLE-capable descriptors of the catalog whose filter accepts the name.
FilterAccepts(name) ==
    {i \in 1..Len(catalog) :
        DC_TRANSPORT_BLE \in catalog[i].transports /\ name \in catalog[i].filter}

\* Every descriptor iterator the last operation asked for was created.
IteratorsCreated == \A i \in Calls("dc_descriptor_iterator") : trace[i].ok

\* C11: get_device_info_from_name takes a descriptor from the filters only
\* when no table entry that matches the name has its product in the catalog;
\* the descriptor it takes then is the first of the catalog that is
\* BLE-capable and whose filter accepts the name; when the catalog was gone
\* through and neither the table nor a filter gave a descriptor the status
\* is DC_STATUS_UNSUPPORTED; and without success family and model are not
\* written.
C11_FilterFallback ==
    Resolved =>
        /\ last.rc = DC_STATUS_SUCCESS /\ last.pattern = 0 =>
               /\ ~TableYields(last.name)
               /\ last.idx \in FilterAccepts(last.name)
               /\ \A j \in FilterAccepts(last.name) : last.idx <= j
               /\ last.family = catalog[last.idx].type
               /\ last.model = catalog[last.idx].model
        /\ IteratorsCreated /\ TableYields(last.name) =>
               last.rc = DC_STATUS_SUCCESS /\ last.pattern # 0
        /\ IteratorsCreated /\ ~TableYields(last.name)
               /\ FilterAccepts(last.name) # {} =>
               last.rc = DC_STATUS_SUCCESS /\ last.pattern = 0
        /\ IteratorsCreated /\ ~TableYields(last.name)
               /\ FilterAccepts(last.name) = {} =>
               last.rc = DC_STATUS_UNSUPPORTED
        /\ last.rc # DC_STATUS_SUCCESS =>
               ~last.written /\ last.family = DC_FAMILY_NULL /\ last.model = 0

\* "FQ001234" is in no table key; the first descriptor whose filter accepts
\* it is not BLE-capable, and the name has resolved to the second.
C11_Witness ==
    /\ Resolved
    /\ last.name = "FQ001234"
    /\ last.rc = DC_STATUS_SUCCESS /\ last.pattern = 0
    /\ catalog[last.idx].product = "i770R"
    /\ \E i \in 1..(last.idx - 1) :
           "FQ001234" \in catalog[i].filter
           /\ DC_TRANSPORT_BLE \notin catalog[i].transports

\* C12: against a catalog that holds both Shearwater Peregrine and
\* Shearwater Peregrine TX, the name "Peregrine" resolves to Shearwater
\* Peregrine TX through the table entry with the key "Peregrine", and no
\* entry before that one matches the name.
C12_PeregrineRemap ==
    /\ Resolved
    /\ last.name = "Peregrine"
    /\ IteratorsCreated
    /\ HasProduct("Shearwater", "Peregrine")
    /\ HasProduct("Shearwater", "Peregrine TX")
    => /\ last.rc = DC_STATUS_SUCCESS
       /\ catalog[last.idx].vendor = "Shearwater"
       /\ catalog[last.idx].product = "Peregrine TX"
       /\ last.family = catalog[last.idx].type
       /\ last.model = catalog[last.idx].model
       /\ last.pattern # 0
       /\ name_patterns[last.pattern].prefix = "Peregrine"
       /\ \A k \in 1..(last.pattern - 1) :
              ~PatternMatches(name_patterns[k], "Peregrine")

\* "Peregrine" has been resolved against a catalog where the descriptor of
\* the Peregrine comes before that of the Peregrine TX.
C12_Witness ==
    /\ Resolved
    /\ last.name = "Peregrine"
    /\ last.rc = DC_STATUS_SUCCESS
    /\ \E i \in 1..(last.idx - 1) :
           catalog[i].vendor = "Shearwater" /\ catalog[i].product = "Peregrine"

OpenSessionClosed == Closed /\ last.held.device # NULL

\* C14: once close_device_data has closed an open session, the next
\* operation on that session is refused: an open_ble_device does not succeed
\* and acquires nothing, and a second close_device_data makes no call and
\* leaves the struct and the heap as they are.
C14_ClosedSessionRefuses ==
    [][OpenSessionClosed =>
          /\ last'.op = "open_ble_device" =>
                 /\ last'.rc # DC_STATUS_SUCCESS
                 /\ \A k \in Kinds : heap'[k] \subseteq heap[k]
          /\ last'.op = "close_device_data" =>
                 trace' = << >> /\ data' = data /\ heap' = heap]_vars

\* C15: when the session has been closed, every buffer the lookup function
\* handed over during device-info events has been freed, and none was freed
\* twice.
C15_FingerprintBuffersFreed ==
    Closed =>
        /\ heap["fingerprint"] = {}
        /\ \A f \in faults : f[2] # "fingerprint"

\* C16: no descriptor the session got from the catalog stays unreleased:
\* none after an open_ble_device that failed, and none after
\* close_device_data.
C16_DescriptorsReleased ==
    \/ Closed
    \/ OpenCalled /\ last.rc # DC_STATUS_SUCCESS
    => heap["descriptor"] = {}

\* reopen_ble_device_with_model was called on a session that has a stream
\* and a context.
Reopened ==
    /\ last.op = "reopen_ble_device_with_model"
    /\ last.data # NULL
    /\ last.held.context # NULL /\ last.held.iostream # NULL

\* C17: reopen_ble_device_with_model resolves the descriptor again and opens
\* the device handle on the stream and the context the session has: it makes
\* no context and no BLE connection, the prior device handle, if there is
\* one, is closed before dc_device_open is called, and a failure of the
\* descriptor resolution or of dc_device_open gives the status the same
\* failure gives in open_ble_device.
C17_ReopenKeepsConnection ==
    Reopened =>
        /\ Calls("dc_descriptor_iterator") # {}
        /\ \A c \in {"dc_context_new", "initializeBLEManager", "createBLEObject",
                      "connectToBLEDevice", "malloc(ble_stream_t)", "ble_close",
                      "freeBLEObject"} : Calls(c) = {}
        /\ data.iostream = last.held.iostream /\ data.context = last.held.context
        /\ \A k \in {"ble", "link", "iostream", "context"} : heap[k] = last.heap[k]
        /\ last.held.device # NULL =>
               \E i \in Made("dc_device_close") :
                   /\ trace[i].obj = last.held.device
                   /\ \A j \in Calls("dc_device_open") : i < j
        /\ last.rc = FailingStatus(last.env, last.family, last.model)
        /\ last.rc = DC_STATUS_SUCCESS <=> data.device # NULL

\* A Ready session opened as a Petrel 2 has been reopened as an EON Steel.
C17_Witness ==
    /\ Reopened
    /\ last.held.device # NULL
    /\ last.held.model.val = "Shearwater Petrel 2"
    /\ last.family = "DC_FAMILY_SUUNTO_EONSTEEL"
    /\ last.rc = DC_STATUS_SUCCESS
    /\ Made("dc_device_open") # {}

\* C18: after a DC_EVENT_CLOCK event has been delivered to the callback of
\* an open session, the struct holds the clock of the event: have_clock is
\* set and clock is the event's data.
C18_ClockCaptured ==
    EventDelivered /\ last.event = DC_EVENT_CLOCK =>
        data.have_clock = 1 /\ data.clock = last.payload

\* The adapter's close was called at place i of the trace, through
\* dc_iostream_close: what ble_stream_close did comes right after it.
AdapterCloseAt(i) ==
    /\ i + 3 <= Len(trace)
    /\ trace[i + 1].call = "ble_close"
    /\ trace[i + 2] = Event("freeBLEObject", trace[i + 1].obj, TRUE)
    /\ trace[i + 3] = Event("free(ble_stream_t)", trace[i].obj, TRUE)

\* C19: whatever the session operations were, the adapter's close is called
\* at most once for a stream: an operation closes the stream it holds at
\* most once and the struct has no stream afterwards, and nothing is ever
\* released that is not live; each close calls ble_close, frees the BLE
\* handle and frees the adapter, each once, also when ble_close fails.
C19_AdapterClosedOnce ==
    /\ Cardinality(Calls("dc_iostream_close")) <= 1
    /\ \A i \in Calls("dc_iostream_close") :
           /\ AdapterCloseAt(i)
           /\ data.iostream = NULL
           /\ trace[i].obj \notin heap["iostream"]
           /\ trace[i + 1].obj \notin heap["ble"]
    /\ Cardinality(Calls("ble_close")) = Cardinality(Calls("dc_iostream_close"))
    /\ Cardinality(Calls("free(ble_stream_t)")) = Cardinality(Calls("dc_iostream_close"))
    /\ \A f \in faults : f[2] \notin {"iostream", "ble"}

\* An open that got as far as the stream has failed, and ble_close failed
\* while the stream was closed.
C19_Witness ==
    /\ OpenCalled
    /\ last.rc = DC_STATUS_PROTOCOL
    /\ \E i \in Calls("dc_iostream_close") :
           ~trace[i + 1].ok /\ trace[i + 1].call = "ble_close"

\* The steps of open_ble_device, by the first call each of them makes.
OpenSteps ==
    <<"dc_context_new", "dc_descriptor_iterator", "createBLEObject",
      "connectToBLEDevice", "malloc(ble_stream_t)", "dc_device_open",
      "dc_device_set_events">>

\* The descriptor was found: the search handed one out and freed its iterator.
DescriptorResolvedBefore(j) ==
    \E i \in Made("dc_iterator_next") :
        /\ i < j
        /\ trace[i + 1].call = "dc_iterator_free"

\* C20: open_ble_device makes the calls of its steps in the order context
\* creation, descriptor resolution, BLE connect and stream creation, device
\* open, event registration, each at most once, and a step is started only
\* after the one before it has succeeded; no BLE object is created or
\* connected unless the descriptor of the pair was found, and
\* dc_device_open is called only with a stream in the struct.
C20_OpenStepOrder ==
    OpenCalled =>
        /\ \A k \in 1..Len(OpenSteps) : Cardinality(Calls(OpenSteps[k])) <= 1
        /\ \A k \in 2..Len(OpenSteps) :
               \A j \in Calls(OpenSteps[k]) :
                   \E i \in Made(OpenSteps[k - 1]) : i < j
        /\ \A j \in Calls("createBLEObject") \cup Calls("connectToBLEDevice") :
               /\ HasDescriptor(last.family, last.model)
               /\ DescriptorResolvedBefore(j)
        /\ \A j \in Calls("dc_device_open") :
               \E i \in Made("malloc(ble_stream_t)") :
                   i < j /\ \A c \in Calls("dc_iostream_close") : j < c
        /\ last.rc = DC_STATUS_SUCCESS =>
               \A k \in 1..Len(OpenSteps) : Made(OpenSteps[k]) # {}

\* The pair has no descriptor: the open got a context, went through the
\* catalog and stopped there.
C20_Witness ==
    /\ OpenCalled
    /\ ~HasDescriptor(last.family, last.model)
    /\ last.rc = DC_STATUS_UNSUPPORTED
    /\ Made("dc_context_new") # {}
    /\ Made("dc_descriptor_iterator") # {}
    /\ Calls("initializeBLEManager") = {}

\* C21: the event callback neither closes nor reopens the session: whatever
\* the event, the device handle, the stream, the context and the descriptor
\* of the struct are as before and none of the calls of an open or a close
\* is made; a DC_EVENT_PROGRESS event changes progress and have_progress
\* and nothing else; an event that is neither DC_EVENT_DEVINFO nor
\* DC_EVENT_PROGRESS changes nothing.
C21_EventSinkFrame ==
    EventDelivered =>
        /\ data.device = last.held.device /\ data.iostream = last.held.iostream
        /\ data.context = last.held.context
        /\ data.descriptor = last.held.descriptor
        /\ \A i \in 1..Len(trace) :
               trace[i].call \in {"lookup_fingerprint", "dc_device_set_fingerprint"}
        /\ last.event = DC_EVENT_PROGRESS =>
               /\ data = [last.held EXCEPT !.progress = last.payload,
                                           !.have_progress = 1]
               /\ trace = << >>
        /\ last.event \notin {DC_EVENT_DEVINFO, DC_EVENT_PROGRESS} =>
               data = last.held /\ trace = << >>

\* A progress event has come to a session that had a device-info snapshot
\* and no progress snapshot.
C21_Witness ==
    /\ EventDelivered
    /\ last.event = DC_EVENT_PROGRESS
    /\ last.held.have_progress = 0 /\ last.held.have_devinfo = 1
    /\ data.have_progress = 1
    /\ data.device # NULL

\* The serials of SerialDevinfos as "%08x" prints them.
SerialText(b) ==
    CASE b = <<222, 173, 190, 239>> -> "deadbeef"
      [] b = <<0, 0, 0, 1>> -> "00000001"
      [] b = <<0, 173, 190, 239>> -> "00adbeef"
      [] b = <<255, 255, 255, 255>> -> "ffffffff"
      [] b = <<0, 0, 0, 0>> -> "00000000"

\* The "Vendor Product" labels of the catalog.
Labels == {catalog[i].vendor \o " " \o catalog[i].product : i \in 1..Len(catalog)}

\* C22: on a DC_EVENT_DEVINFO event the lookup function is called once, with
\* the context and the "Vendor Product" label of the struct and the serial
\* of the event as 8 lowercase hexadecimal digits with leading zeros, when
\* the struct has a lookup function and a label; otherwise it is not
\* called.
C22_LookupArguments ==
    EventDelivered /\ last.event = DC_EVENT_DEVINFO =>
        IF last.held.lookup_fingerprint # NULL /\ last.held.model.ptr # NULL
        THEN /\ Len(last.lookups) = 1
             /\ Cardinality(Calls("lookup_fingerprint")) = 1
             /\ last.lookups[1].context = last.held.fingerprint_context
             /\ last.lookups[1].device_type = last.held.model.val
             /\ last.lookups[1].device_type \in Labels
             /\ Len(last.lookups[1].serial) = 8
             /\ last.lookups[1].serial = SerialText(last.payload.serial)
        ELSE last.lookups = << >> /\ Calls("lookup_fingerprint") = {}

\* The lookup was called for the serial 0x1 on a session opened as a
\* Petrel 2.
C22_Witness ==
    /\ EventDelivered
    /\ last.payload.serial = <<0, 0, 0, 1>>
    /\ Len(last.lookups) = 1
    /\ last.lookups[1].device_type = "Shearwater Petrel 2"
    /\ last.lookups[1].serial = "00000001"

\* C23: whenever the struct stores a fingerprint of non-zero size, the
\* device handle of the struct has these bytes as its active fingerprint,
\* also when dc_device_set_fingerprint answered with a failure; and a
\* lookup that returns no bytes leaves the fingerprint of the struct and of
\* the device handle as they were and calls nothing on the handle.
C23_StoredFingerprintIsActive ==
    /\ data.fingerprint.ptr # NULL /\ data.fsize > 0 =>
           devobj.fingerprint = SubSeq(data.fingerprint.val, 1, data.fsize)
    /\ /\ EventDelivered /\ last.event = DC_EVENT_DEVINFO
       /\ ~(last.env.lookup.buf /\ last.env.lookup.fsize > 0)
       => /\ data.fingerprint = last.held.fingerprint
          /\ data.fsize = last.held.fsize
          /\ Calls("dc_device_set_fingerprint") = {}

\* C24: once the struct is allocated, open_ble_device_with_identification
\* calls open_ble_device with the stored pair exactly when stored_family is
\* not DC_FAMILY_NULL and stored_model is not the value that stands for no
\* model (0); a stored pair the catalog has a descriptor for is such a pair;
\* and when the call is not made, get_device_info_from_name is called.
C24_StoredPairPresence ==
    IdentCalled /\ last.env1.calloc =>
        /\ last.stored_rc # "none" <=>
               (last.stored_family # DC_FAMILY_NULL /\ last.stored_model # 0)
        /\ HasDescriptor(last.stored_family, last.stored_model) => last.stored_rc # "none"
        /\ last.stored_rc = "none" => Calls("get_device_info_from_name") # {}

\* C25: when open_ble_device_with_identification, its struct allocated,
\* returns a failure, the status is that of the step of the fallback that
\* failed (the open with the resolved pair, or else the name resolution),
\* *out_data is not written, the struct is freed, and no context,
\* connection, BLE handle, stream, device handle or descriptor is left.
C25_FailedIdentificationUnwinds ==
    IdentCalled /\ last.env1.calloc /\ last.rc # DC_STATUS_SUCCESS =>
        /\ Calls("get_device_info_from_name") # {}
        /\ last.fallback_rc # "none" => last.rc = last.fallback_rc
        /\ last.fallback_rc = "none" /\ last.envR.iterFail = 0 =>
               last.rc = DC_STATUS_UNSUPPORTED
        /\ out_data = NULL
        /\ cur = NULL /\ heap["data"] = {}
        /\ \A k \in {"context", "link", "ble", "iostream", "device", "descriptor"} :
               heap[k] = {}

\* One of the three functions that resolve a name has returned.
NameFunctionCalled ==
    last.op \in {"find_descriptor_by_name", "get_device_info_from_name",
                 "get_formatted_device_name"}

\* The calls of the last operation that fetch or free a descriptor, and
\* those that create or free an iterator, in the order they were made.
IsFetch(e) == e.call \in {"dc_iterator_next", "dc_descriptor_free"}
IsIterator(e) == e.call \in {"dc_descriptor_iterator", "dc_iterator_free"}
Fetches == SelectSeq(trace, IsFetch)
Iterators == SelectSeq(trace, IsIterator)

\* C26: in find_descriptor_by_name, get_device_info_from_name and
\* get_formatted_device_name, a descriptor got from dc_iterator_next is
\* freed before dc_iterator_next is called again, every iterator created is
\* freed before the return, nothing is freed twice, and on return one
\* descriptor is left, the one handed to the caller, when
\* find_descriptor_by_name itself succeeds, and none otherwise.
C26_DescriptorAccounting ==
    NameFunctionCalled =>
        /\ \A i \in 1..(Len(Fetches) - 1) :
               Fetches[i].call = "dc_iterator_next" /\ Fetches[i].ok =>
                   /\ Fetches[i + 1].call = "dc_descriptor_free"
                   /\ Fetches[i + 1].obj = Fetches[i].obj
        /\ \A i \in 1..Len(Iterators) :
               Iterators[i].call = "dc_descriptor_iterator" /\ Iterators[i].ok =>
                   /\ i < Len(Iterators)
                   /\ Iterators[i + 1].call = "dc_iterator_free"
                   /\ Iterators[i + 1].obj = Iterators[i].obj
        /\ heap["iterator"] = {}
        /\ faults = {}
        /\ heap["descriptor"] =
               IF last.op = "find_descriptor_by_name" /\ last.rc = DC_STATUS_SUCCESS
               THEN {last.desc}
               ELSE {}

\* get_formatted_device_name found "Shearwater Perdix 2" after it went past
\* other descriptors, and the malloc of the label failed.
C26_Witness ==
    /\ last.op = "get_formatted_device_name"
    /\ last.rc = DC_STATUS_SUCCESS
    /\ last.result.ptr = NULL
    /\ Cardinality(Made("dc_iterator_next")) >= 2
    /\ Cardinality(Made("dc_descriptor_iterator")) >= 2
    /\ heap["descriptor"] = {}

\* C27: between the operations, device, iostream and context of the struct
\* are all three NULL or all three set, and when set each is an object that
\* has not been released; so a device handle that is not NULL comes with
\* its stream and its context.
C27_DeviceImpliesStreamAndContext ==
    /\ data.device # NULL => data.iostream # NULL /\ data.context # NULL
    /\ \/ data.device = NULL /\ data.iostream = NULL /\ data.context = NULL
       \/ /\ data.device \in heap["device"]
          /\ data.iostream \in heap["iostream"]
          /\ data.context \in heap["context"]

\* A session opened after a close: the three are set and live.
C27_Witness ==
    /\ OpenCalled /\ last.rc = DC_STATUS_SUCCESS /\ nOpens = 2
    /\ last.held.device = NULL
    /\ data.device \in heap["device"]
    /\ data.iostream \in heap["iostream"]
    /\ data.context \in heap["context"]

\* The handle of call k of the trace had been connected: by a
\* connectToBLEDevice of the same operation, or, when a stream is closed,
\* by the ble_packet_open that made the stream.
WasConnected(k) ==
    \/ \E i \in Made("connectToBLEDevice") : i < k /\ trace[i].obj = trace[k].obj
    \/ \E i \in Calls("dc_iostream_close") : i < k

\* C28: a BLE handle that connectToBLEDevice has connected is not given to
\* freeBLEObject before ble_close was called on it: when the stream cannot
\* be created after the connect, when a later step of the open fails, and
\* when the stream is closed.
C28_DisconnectBeforeFree ==
    \A k \in Calls("freeBLEObject") :
        WasConnected(k) =>
            \E j \in Calls("ble_close") : j < k /\ trace[j].obj = trace[k].obj

\* The call that releases an object of a kind the struct refers to.
ReleasedFrom ==
    [device |-> "dc_device_close", iostream |-> "free(ble_stream_t)",
     context |-> "dc_context_free", model |-> "free(model)",
     fingerprint |-> "free(fingerprint)"]

\* What the struct referred to before the last operation, by kind.
HeldObjects ==
    {<<"device", last.held.device>>, <<"iostream", last.held.iostream>>,
     <<"context", last.held.context>>, <<"model", last.held.model.ptr>>,
     <<"fingerprint", last.held.fingerprint.ptr>>}

\* C29: open_ble_device with a struct and an address clears the struct
\* before anything else: when it returns, with success or not, the lookup
\* function, its context, the fingerprint, its size and the three have_
\* flags are cleared whatever they were; what the struct referred to
\* before the call has not been released; and a device-info event on a
\* struct without a lookup function calls no lookup.
C29_OpenResetsSession ==
    /\ OpenCalled =>
           /\ trace # << >> /\ trace[1].call = "memset"
           /\ data.lookup_fingerprint = NULL /\ data.fingerprint_context = NULL
           /\ data.fingerprint = NullBuf /\ data.fsize = 0
           /\ data.have_devinfo = 0 /\ data.have_progress = 0 /\ data.have_clock = 0
           /\ \A o \in HeldObjects : o[2] # NULL => o[2] \in heap[o[1]]
           /\ \A o \in HeldObjects : o[2] # NULL =>
                  \A i \in Calls(ReleasedFrom[o[1]]) : trace[i].obj # o[2]
    /\ EventDelivered /\ last.event = DC_EVENT_DEVINFO
       /\ last.held.lookup_fingerprint = NULL
       => last.lookups = << >> /\ Calls("lookup_fingerprint") = {}

\* open_ble_device succeeded on a struct that was open, with a lookup
\* function, a fingerprint and the device info of an event.
C29_Witness ==
    /\ OpenCalled /\ last.rc = DC_STATUS_SUCCESS
    /\ last.held.device # NULL
    /\ last.held.lookup_fingerprint # NULL
    /\ last.held.fingerprint.ptr # NULL
    /\ last.held.have_devinfo = 1
    /\ data.lookup_fingerprint = NULL
    /\ data.device # NULL

====
